---- MODULE Spec2Model ----
(***************************************************************************)
(* Model of the G2 OpenClaw gateway: the listener (GatewayServer.handler), *)
(* the session runtime (GatewaySession), the response handlers and the     *)
(* upstream agent client (OpenClawClient), which one GatewayServer shares  *)
(* between all of its sessions.                                            *)
(*                                                                         *)
(* Every connection is served by one asyncio task.  An action is the code  *)
(* a task runs from the resumption of one await to the next await at which *)
(* it can be suspended on the network, on the transcriber or on a timer.   *)
(* Writes to the client socket (send_frame) are taken to complete without  *)
(* suspending; every await on the upstream socket (connect, send, recv,    *)
(* close) is a suspension point.                                           *)
(***************************************************************************)
EXTENDS Integers, Sequences, FiniteSets, TLC

\* ------------------------------------------------------------------ bounds
NConn == 3          \* client connections that may arrive
MaxFrames == 3      \* inbound frames one session reads
MaxSocks == 2       \* upstream sockets that websockets.connect may open
MaxEvents == 2      \* assistant deltas one event stream delivers
MaxNow == 135       \* the clock stops at this many seconds
MaxQueued == 1      \* messages a client sends ahead while its session is busy
MaxChunks == 3      \* chunks a buffer under test accepts between two resets

Conns == 1..NConn
Socks == 1..MaxSocks

\* ------------------------------------------------------- program constants
MAX_RECORDING_SECONDS == 90
MAX_DURATION_SECONDS == 60
GatewayToken == "T"           \* the configured GATEWAY_TOKEN, when one is configured
NonAsciiToken == "T-u00e9"    \* stands for a token with a non-ASCII character ("T\u00e9" in JSON)

NoSession == 0      \* None in _current_session / old_session
NoWs == 0           \* None in OpenClawClient._ws
NoBuf == [present |-> FALSE]
NoTime == -1        \* None in _recording_start

\* SessionState
SessionState == {"idle", "recording", "transcribing", "thinking", "streaming"}

\* ErrorCode
ErrorCode ==
  [AUTH_FAILED |-> "AUTH_FAILED", TRANSCRIPTION_FAILED |-> "TRANSCRIPTION_FAILED",
   BUFFER_OVERFLOW |-> "BUFFER_OVERFLOW", OPENCLAW_ERROR |-> "OPENCLAW_ERROR",
   INVALID_FRAME |-> "INVALID_FRAME", INVALID_STATE |-> "INVALID_STATE",
   TIMEOUT |-> "TIMEOUT", INTERNAL_ERROR |-> "INTERNAL_ERROR"]

\* the deltas of MockResponseHandler
MOCK_DELTAS == <<"This is a ", "mock response ", "from the gateway.">>

\* --------------------------------------------------------- outbound frames
ConnectedFrame == <<"connected", "1.0">>
StatusFrame(s) == <<"status", s>>
ErrorFrame(detail, code) == <<"error", code, detail>>
AssistantFrame(d) == <<"assistant", d>>
EndFrame == <<"end">>
TranscriptionFrame(t) == <<"transcription", t>>

IsError(f) == f[1] = "error"
IsStatus(f) == f[1] = "status"

\* ------------------------------------------------ inbound frames and codec
\* A JSON value of an inbound frame: a string or an integer.
S(v) == [t |-> "str", s |-> v, i |-> 0]
I(v) == [t |-> "int", s |-> "", i |-> v]

\* A raw text message: wf = json.loads succeeds, obj = the root is an object,
\* data = the object (field name -> value).
Raw(d) == [wf |-> TRUE, obj |-> TRUE, data |-> d]
RawNotJson == [wf |-> FALSE, obj |-> FALSE, data |-> <<>>]
RawNotObject == [wf |-> TRUE, obj |-> FALSE, data |-> <<>>]

INBOUND_FIELDS ==
  [start_audio |-> <<"sampleRate", "channels", "sampleWidth">>,
   stop_audio |-> <<>>, text |-> <<"message">>, pong |-> <<>>]

FIELD_TYPES ==
  [sampleRate |-> "int", channels |-> "int", sampleWidth |-> "int",
   message |-> "str", delta |-> "str", text |-> "str", detail |-> "str",
   code |-> "str", version |-> "str", status |-> "str"]

ParseOk(d) == [ok |-> TRUE, frame |-> d, detail |-> ""]
ParseFail(msg) == [ok |-> FALSE, frame |-> <<>>, detail |-> msg]

\* _check_fields: the first missing required field, then any mistyped field
CheckFields(data, required, frame_type) ==
  LET missing == {k \in 1..Len(required) : required[k] \notin DOMAIN data}
      mistyped == {f \in DOMAIN data \ {"type"} :
                     f \in DOMAIN FIELD_TYPES /\ data[f].t # FIELD_TYPES[f]}
  IN IF missing # {}
       THEN LET k == CHOOSE k \in missing : \A j \in missing : k <= j
            IN ParseFail("Frame type '" \o frame_type \o
                         "' missing required field '" \o required[k] \o "'")
     ELSE IF mistyped # {}
       THEN LET f == CHOOSE f \in mistyped : TRUE
            IN ParseFail("Field '" \o f \o "' must be " \o FIELD_TYPES[f] \o
                         ", got " \o data[f].t)
     ELSE ParseOk(data)

\* parse_text_frame
ParseTextFrame(raw) ==
  IF ~raw.wf THEN ParseFail("Invalid JSON")
  ELSE IF ~raw.obj THEN ParseFail("Frame must be a JSON object")
  ELSE IF "type" \notin DOMAIN raw.data THEN ParseFail("Frame missing 'type' field")
  ELSE IF raw.data.type.t # "str" \/ raw.data.type.s \notin DOMAIN INBOUND_FIELDS
    THEN ParseFail("Unknown frame type: " \o
                   (IF raw.data.type.t = "str" THEN raw.data.type.s
                    ELSE ToString(raw.data.type.i)))
  ELSE CheckFields(raw.data, INBOUND_FIELDS[raw.data.type.s], raw.data.type.s)

OUTBOUND_FIELDS ==
  [status |-> <<"status">>, transcription |-> <<"text">>, assistant |-> <<"delta">>,
   end |-> <<>>, error |-> <<"detail", "code">>, connected |-> <<"version">>,
   ping |-> <<>>]

\* validate_outbound, called with a dict
ValidateOutbound(d) ==
  IF "type" \notin DOMAIN d THEN ParseFail("Frame missing 'type' field")
  ELSE IF d.type.t # "str" \/ d.type.s \notin DOMAIN OUTBOUND_FIELDS
    THEN ParseFail("Unknown outbound frame type: " \o
                   (IF d.type.t = "str" THEN d.type.s ELSE ToString(d.type.i)))
  ELSE CheckFields(d, OUTBOUND_FIELDS[d.type.s], d.type.s)

\* serialize: json.dumps of a dict with string keys whose values are strings
\* and integers, as the text json.loads reads: well-formed, an object
Serialize(d) == [wf |-> TRUE, obj |-> TRUE, data |-> d]

StartAudio(rate, ch, width) ==
  Raw([type |-> S("start_audio"), sampleRate |-> I(rate), channels |-> I(ch),
       sampleWidth |-> I(width)])

\* the text messages a client sends to a session
SessionRaws ==
  { RawNotJson,
    Raw([type |-> S("text"), message |-> S("hi")]),
    Raw([type |-> S("pong")]),
    Raw([type |-> S("stop_audio")]),
    StartAudio(16000, 1, 2), StartAudio(48000, 2, 2), StartAudio(16000, 1, 4),
    StartAudio(7999, 1, 2), StartAudio(48001, 1, 2), StartAudio(16000, 3, 2) }

\* text messages parse_text_frame refuses: not JSON, not an object, no type, an
\* unknown type, a type that is not a string, a missing field, a mistyped field
InvalidRaws ==
  { RawNotJson, RawNotObject,
    Raw([message |-> S("hi")]),
    Raw([type |-> S("bogus")]),
    Raw([type |-> I(5)]),
    Raw([type |-> S("text")]),
    Raw([type |-> S("text"), message |-> I(1)]),
    Raw([type |-> S("start_audio"), sampleRate |-> S("16000"), channels |-> I(1),
         sampleWidth |-> I(2)]) }

\* the frames given to the codec: for every frame type of the protocol (and
\* one that is none) a frame with the fields the protocol lists for it, that
\* frame without one of its fields, with one field of the other JSON type, and
\* with one more field; and a frame without type
FullFrames ==
  { [type |-> S("start_audio"), sampleRate |-> I(16000), channels |-> I(1),
     sampleWidth |-> I(2)],
    [type |-> S("stop_audio")], [type |-> S("text"), message |-> S("hi")],
    [type |-> S("pong")], [type |-> S("auth"), token |-> S("t")],
    [type |-> S("connected"), version |-> S("1.0")],
    [type |-> S("status"), status |-> S("idle")],
    [type |-> S("transcription"), text |-> S("hi")],
    [type |-> S("assistant"), delta |-> S("a")], [type |-> S("end")],
    [type |-> S("error"), detail |-> S("x"), code |-> S("TIMEOUT")],
    [type |-> S("ping")], [type |-> S("bogus")] }

Without(d, k) == [f \in DOMAIN d \ {k} |-> d[f]]
Mistyped(d, k) == [d EXCEPT ![k] = IF @.t = "str" THEN I(1) ELSE S("1")]

CodecFrames ==
  FullFrames
    \cup UNION { {Without(d, k) : k \in DOMAIN d} : d \in FullFrames }
    \cup UNION { {Mistyped(d, k) : k \in DOMAIN d \ {"type"}} : d \in FullFrames }
    \cup { d @@ ("seq" :> I(7)) : d \in FullFrames }

\* ------------------------------------------------------------ audio buffer
\* an AudioBuffer constructed with the default format, whatever was declared
NewBufferDefault(rate, ch, width) ==
  [present |-> TRUE, sample_rate |-> 16000, channels |-> 1, sample_width |-> 2,
   byte_rate |-> 32000, max_bytes |-> MAX_DURATION_SECONDS * 32000,
   chunks |-> <<>>, total_bytes |-> 0]

\* AudioBuffer.__init__
NewBuffer(rate, ch, width) ==
  [present |-> TRUE, sample_rate |-> rate, channels |-> ch, sample_width |-> width,
   byte_rate |-> rate * ch * width,
   max_bytes |-> MAX_DURATION_SECONDS * (rate * ch * width),
   chunks |-> <<>>, total_bytes |-> 0]

\* the chunk lengths of binary frames: empty, aligned, odd, a full buffer of
\* 16 kHz mono audio, more than a full buffer
ChunkLens == {0, 2, 3, MAX_DURATION_SECONDS * 32000, MAX_DURATION_SECONDS * 32000 + 2}

\* AudioBuffer.append, alignment check: ValueError for a misaligned chunk
AppendMisaligned(b, n) == n % b.sample_width # 0

\* a cap check that refuses the chunk that fills the buffer exactly
AppendOverflowsAtCap(b, n) == b.total_bytes + n >= b.max_bytes

\* AudioBuffer.append, cap check: BufferOverflow
AppendOverflows(b, n) == b.total_bytes + n > b.max_bytes

\* an append that keeps the chunk and does not count its bytes
AppendChunkUncounted(b, n) ==
  IF n = 0 THEN b
  ELSE [b EXCEPT !.chunks = Append(@, n)]

\* AudioBuffer.append on the accepting path; an empty chunk is a no-op
AppendChunk(b, n) ==
  IF n = 0 THEN b
  ELSE [b EXCEPT !.chunks = Append(@, n), !.total_bytes = @ + n]

\* AppendCall for an append that takes chunks of any length
AppendCallUnaligned(b, n) ==
  IF AppendOverflows(b, n)
    THEN [buf |-> b, exc |-> "BufferOverflow"]
    ELSE [buf |-> AppendChunk(b, n), exc |-> "none"]

\* AudioBuffer.append called with a chunk of n bytes: the buffer after the
\* call and the exception it leaves with
AppendCall(b, n) ==
  IF AppendMisaligned(b, n)
    THEN [buf |-> b, exc |-> "ValueError"]
  ELSE IF AppendOverflows(b, n)
    THEN [buf |-> b, exc |-> "BufferOverflow"]
    ELSE [buf |-> AppendChunk(b, n), exc |-> "none"]

\* the formats of the buffers under test, and the lengths of the chunks given
\* to them: empty, one byte, small, odd, half a 16 kHz buffer (a full 8 kHz
\* buffer), a 16 kHz buffer but one sample, a full 16 kHz buffer
BufferFormats == {<<16000, 1, 2>>, <<8000, 1, 2>>}
BufferLens ==
  {0, 1, 2, 3, 4, MAX_DURATION_SECONDS * 16000, MAX_DURATION_SECONDS * 32000 - 2,
   MAX_DURATION_SECONDS * 32000}

\* no call made yet on the buffer under test
NoCall == [op |-> "none", n |-> 0, exc |-> "none", before |-> NoBuf]

\* a reset that keeps what was recorded
ResetBufferKeep(b) == b

\* AudioBuffer.reset
ResetBuffer(b) == [b EXCEPT !.chunks = <<>>, !.total_bytes = 0]

\* a buffer that never reports itself empty
IsEmptyNever(b) == FALSE

\* AudioBuffer.is_empty
IsEmpty(b) == b.total_bytes = 0

\* ------------------------------------------------------------------- state
VARIABLES
  cfg,               \* GatewayConfig and the collaborators given to GatewayServer
  now,               \* the event loop clock, in seconds
  current_session,   \* GatewayServer._current_session (a connection or NoSession)
  acceptSeq,         \* history: the connections in the order they were accepted
  pc,                \* where the task serving each connection is suspended
  old_session,       \* handler(): the local old_session of each task
  cliOpen,           \* the client socket of each connection is open
  srvClose,          \* the code the server closed each client socket with (0: none)
  budget,            \* inbound frames each client may still send
  recv_queue,        \* the messages each client socket has received and handle() has not read
  out,               \* the frames written to each client socket, in order
  state,             \* GatewaySession._state
  audio_buffer,      \* GatewaySession._audio_buffer
  recording_start,   \* GatewaySession._recording_start
  hmsg,              \* the message the response handler was last invoked with
  hres,              \* history: how the response handler of the last cycle ended
  hclosed,           \* history: the session called handler.close() in this cycle
  errKind,           \* the exception _handle_text is handling while it closes the handler
  rsock,             \* the upstream socket the task's pending send/recv is bound to
  req_id,            \* the local auth_id / req_id of the task's pending request
  nev,               \* assistant deltas the task's delta iterator has yielded
  client_ws,         \* OpenClawClient._ws (a socket or NoWs)
  next_id,           \* OpenClawClient._next_id
  connected,         \* OpenClawClient._connected
  nsock,             \* upstream sockets opened so far
  sockOpen,          \* each upstream socket is open
  creator,           \* history: the connection whose task opened each upstream socket
  touched,           \* history: the connections whose tasks sent on or closed each socket
  last_call,         \* buffer under test: the last call, the buffer before it, its exception
  exc_text           \* the text the internal exceptions of this run carry

vCfg == <<cfg, last_call, exc_text>>
vIn == <<budget, recv_queue>>
vTask == <<pc, old_session, errKind, rsock, req_id, nev>>
vCli == <<cliOpen, srvClose>>
vSess == <<state, audio_buffer, recording_start>>
vHist == <<hres, hclosed, hmsg>>
vSlot == <<current_session, acceptSeq>>
vClient == <<client_ws, next_id, connected>>
vSock == <<nsock, sockOpen, creator, touched>>
vars == <<vCfg, now, vIn, out, vTask, vCli, vSess, vHist, vSlot, vClient, vSock>>

\* GatewayServer.__init__, OpenClawClient.__init__ and the fields a
\* GatewaySession is constructed with
\* the messages that the exceptions raised inside the gateway carry in a run
\* (TranscriptionError, OpenClawError with the upstream error string, the
\* ValueError and BufferOverflow of the audio buffer, any other exception);
\* they go to the log
ExcTexts == {"boom", "no route to 10.0.0.7"}

InitSession ==
  /\ now = 0
  /\ last_call = NoCall
  /\ recv_queue = [c \in Conns |-> <<>>]
  /\ current_session = NoSession
  /\ acceptSeq = <<>>
  /\ pc = [c \in Conns |-> "new"]
  /\ old_session = [c \in Conns |-> NoSession]
  /\ cliOpen = [c \in Conns |-> FALSE]
  /\ srvClose = [c \in Conns |-> 0]
  /\ out = [c \in Conns |-> <<>>]
  /\ state = [c \in Conns |-> "idle"]
  /\ audio_buffer = [c \in Conns |-> NoBuf]
  /\ recording_start = [c \in Conns |-> NoTime]
  /\ hmsg = [c \in Conns |-> ""]
  /\ hres = [c \in Conns |-> "none"]
  /\ hclosed = [c \in Conns |-> FALSE]
  /\ errKind = [c \in Conns |-> "none"]
  /\ rsock = [c \in Conns |-> NoWs]
  /\ req_id = [c \in Conns |-> 0]
  /\ nev = [c \in Conns |-> 0]
  /\ client_ws = NoWs
  /\ next_id = 1
  /\ connected = FALSE
  /\ nsock = 0
  /\ sockOpen = [s \in Socks |-> FALSE]
  /\ creator = [s \in Socks |-> NoSession]
  /\ touched = [s \in Socks |-> {}]

InitState == InitSession /\ exc_text = "boom"

\* ---------------------------------------------------------------- listener
\* a finally clause that clears the slot whoever holds it
SlotAfterEndAlways(c) == NoSession

\* the finally clause of GatewayServer.handler
SlotAfterEnd(c) == IF current_session = c THEN NoSession ELSE current_session

\* a replacement that leaves the previous socket alone
ReplacedCloseSkipped(old) == UNCHANGED <<cliOpen, srvClose>>

\* handler(): old_session.ws.close(1000, "Replaced by new connection"); closing
\* a socket that is closed already does nothing
ReplacedClose(old) ==
  /\ cliOpen' = [cliOpen EXCEPT ![old] = FALSE]
  /\ srvClose' = [srvClose EXCEPT ![old] = IF cliOpen[old] THEN 1000 ELSE @]

\* handler(), from the creation of the session: claim the slot, then close the
\* shared handler and the previous socket when a session held the slot;
\* otherwise enter GatewaySession.handle (connected, then status=idle)
Accept(c) ==
  LET old == current_session IN
  /\ acceptSeq' = Append(acceptSeq, c)
  /\ old_session' = [old_session EXCEPT ![c] = old]
  /\ UNCHANGED <<vCfg, now, vIn, vSess, vHist, errKind, rsock, req_id, nev,
                 next_id, nsock, creator>>
  /\ IF old = NoSession
       THEN /\ IF cliOpen[c]
                 THEN /\ out' = [out EXCEPT ![c] = <<ConnectedFrame, StatusFrame("idle")>>]
                      /\ pc' = [pc EXCEPT ![c] = "read"]
                      /\ current_session' = c
                 ELSE \* ConnectionClosed, then the finally clause
                      /\ out' = out
                      /\ pc' = [pc EXCEPT ![c] = "done"]
                      /\ current_session' = NoSession
            /\ UNCHANGED <<cliOpen, srvClose, client_ws, connected, sockOpen, touched>>
       ELSE /\ current_session' = c
            /\ out' = out
            /\ IF cfg.handler = "openclaw" /\ client_ws # NoWs
                 THEN \* OpenClawClient.close: suspended in _ws.close()
                      /\ connected' = FALSE
                      /\ sockOpen' = [sockOpen EXCEPT ![client_ws] = FALSE]
                      /\ touched' = [touched EXCEPT ![client_ws] = @ \cup {c}]
                      /\ pc' = [pc EXCEPT ![c] = "repl_closeWs"]
                      /\ UNCHANGED <<cliOpen, srvClose, client_ws>>
                 ELSE \* nothing to close: go on to old_session.ws.close(1000, ...)
                      /\ connected' = FALSE
                      /\ ReplacedClose(old)
                      /\ pc' = [pc EXCEPT ![c] = "repl_closeOld"]
                      /\ UNCHANGED <<client_ws, sockOpen, touched>>

\* a client completes the websocket handshake and its handler task is created
Connect(c) ==
  /\ pc[c] = "new"
  /\ IF c = 1 THEN TRUE ELSE pc[c - 1] # "new"
  /\ pc' = [pc EXCEPT ![c] = IF cfg.auth THEN "auth" ELSE "start"]
  /\ cliOpen' = [cliOpen EXCEPT ![c] = TRUE]
  /\ UNCHANGED <<vCfg, now, vIn, out, old_session, errKind, rsock, req_id, nev,
                 srvClose, vSess, vHist, vSlot, vClient, vSock>>

\* handler() without a configured token: no auth, the session is created at once
HandlerStart(c) ==
  /\ pc[c] = "start"
  /\ Accept(c)

\* what the first-message handshake can receive
AuthEvents ==
  [k : {"binary", "timeout", "closed"}, raw : {RawNotJson}] \cup
  [k : {"text"},
   raw : { RawNotJson, RawNotObject,
           Raw([type |-> S("auth"), token |-> S(GatewayToken)]),
           Raw([type |-> S("auth"), token |-> S("X")]),
           Raw([type |-> S("auth"), token |-> I(7)]),
           Raw([type |-> S("auth"), token |-> S(NonAsciiToken)]),
           Raw([type |-> S("auth")]),
           Raw([type |-> S("text"), message |-> S(GatewayToken)]) }]

\* handler(), lines 471-484: the value of authenticated
Authenticated(ev) ==
  /\ ev.k = "text"
  /\ ev.raw.wf
  /\ ev.raw.obj
  /\ "type" \in DOMAIN ev.raw.data
  /\ ev.raw.data.type = S("auth")
  /\ "token" \in DOMAIN ev.raw.data
  /\ ev.raw.data.token.t = "str"
  /\ ev.raw.data.token.s = GatewayToken

\* hmac.compare_digest on two str arguments: TypeError unless both are ASCII
IsAscii(s) == s # NonAsciiToken
CompareDigestRaises(a, b) == ~(IsAscii(a) /\ IsAscii(b))

\* handler(), lines 471-484: the condition is evaluated up to compare_digest,
\* which raises TypeError; no except clause of handler() catches it
AuthRaises(ev) ==
  /\ ev.k = "text"
  /\ ev.raw.wf
  /\ ev.raw.obj
  /\ "type" \in DOMAIN ev.raw.data
  /\ ev.raw.data.type = S("auth")
  /\ "token" \in DOMAIN ev.raw.data
  /\ ev.raw.data.token.t = "str"
  /\ CompareDigestRaises(ev.raw.data.token.s, GatewayToken)

\* handler(), the first-message auth handshake on the event ev: the session is
\* created, or the socket is closed with 4001, or the exception leaves
\* handler() and the websockets server closes the socket with 1011
AuthRecvEv(c, ev) ==
  /\ pc[c] = "auth"
  /\ ev.k = "closed" <=> ~cliOpen[c]
  /\ IF Authenticated(ev)
       THEN Accept(c)
       ELSE /\ pc' = [pc EXCEPT ![c] = "done"]
            /\ cliOpen' = [cliOpen EXCEPT ![c] = FALSE]
            /\ srvClose' = [srvClose EXCEPT ![c] =
                             IF ~cliOpen[c] THEN @
                             ELSE IF AuthRaises(ev) THEN 1011 ELSE 4001]
            /\ UNCHANGED <<vCfg, now, vIn, out, old_session, errKind, rsock, req_id,
                           nev, vSess, vHist, vSlot, vClient, vSock>>

\* handler(), the first-message auth handshake
AuthRecv(c) == \E ev \in AuthEvents : AuthRecvEv(c, ev)

\* handler(): _handler.close() returns from _ws.close(); then
\* old_session.ws.close(1000, "Replaced by new connection")
ReplaceCloseWs(c) ==
  /\ pc[c] = "repl_closeWs"
  /\ client_ws' = NoWs
  /\ connected' = FALSE
  /\ ReplacedClose(old_session[c])
  /\ pc' = [pc EXCEPT ![c] = "repl_closeOld"]
  /\ UNCHANGED <<vCfg, now, vIn, out, old_session, errKind, rsock, req_id, nev,
                 vSess, vHist, vSlot, next_id, vSock>>

\* handler(): the close of the previous socket returns; GatewaySession.handle starts
ReplaceCloseOld(c) ==
  /\ pc[c] = "repl_closeOld"
  /\ IF cliOpen[c]
       THEN /\ out' = [out EXCEPT ![c] = <<ConnectedFrame, StatusFrame("idle")>>]
            /\ pc' = [pc EXCEPT ![c] = "read"]
            /\ current_session' = current_session
       ELSE /\ out' = out
            /\ pc' = [pc EXCEPT ![c] = "done"]
            /\ current_session' = SlotAfterEnd(c)
  /\ UNCHANGED <<vCfg, now, vIn, old_session, errKind, rsock, req_id, nev,
                 vCli, vSess, vHist, acceptSeq, vClient, vSock>>

\* the client goes away while its task is suspended elsewhere than in the read loop
ClientDisconnect(c) ==
  /\ pc[c] \notin {"new", "done", "read"}
  /\ cliOpen[c]
  /\ cliOpen' = [cliOpen EXCEPT ![c] = FALSE]
  /\ UNCHANGED <<vCfg, now, vIn, out, vTask, srvClose, vSess, vHist, vSlot, vClient, vSock>>

\* handle(): the read loop ends because the socket is closed (the client goes
\* away now, or the socket was closed before); handler() runs its finally clause
SessionEnd(c) ==
  /\ pc[c] = "read"
  /\ recv_queue[c] = <<>> \/ ~cliOpen[c]
  /\ cliOpen' = [cliOpen EXCEPT ![c] = FALSE]
  /\ pc' = [pc EXCEPT ![c] = "done"]
  /\ current_session' = SlotAfterEnd(c)
  /\ UNCHANGED <<vCfg, now, vIn, out, old_session, errKind, rsock, req_id, nev,
                 srvClose, vSess, vHist, acceptSeq, vClient, vSock>>

\* the event loop clock advances, by the step of the run, while a recording
\* is in progress
Tick ==
  /\ cfg.tick > 0
  /\ now + cfg.tick <= MaxNow
  /\ \E c \in Conns : state[c] = "recording"
  /\ now' = now + cfg.tick
  /\ UNCHANGED <<vCfg, vIn, out, vTask, vCli, vSess, vHist, vSlot, vClient, vSock>>

\* ----------------------------------------------------- session: text cycle
\* what a handler step never changes
vEnv == <<vCfg, now, vIn, old_session, vCli, audio_buffer, recording_start,
          hmsg, acceptSeq>>

vReq == <<rsock, req_id, nev, next_id, nsock, creator>>
vShared == <<next_id, nsock, creator>>

\* the tasks other than c that are suspended in recv() on upstream socket s
RecvPending(c, s) ==
  {d \in Conns \ {c} : pc[d] \in {"ec_authRecv", "sm_recv", "st_recv"} /\ rsock[d] = s}

\* the locals of the handler's frames (the socket a send/recv is bound to, the
\* request id, the iterator's position) end with handler.handle()
DropLocals(c) ==
  /\ rsock' = [rsock EXCEPT ![c] = NoWs]
  /\ req_id' = [req_id EXCEPT ![c] = 0]
  /\ nev' = [nev EXCEPT ![c] = 0]

\* _handle_text: the error frame of each except clause.  The kinds of failure:
\* "timeout" (wait_for), "openclaw" (OpenClawError, raised after the client
\* marked its connection dead or before it was connected), "openclaw_kept"
\* (OpenClawError raised with _connected left set), "other" (any other exception)
\* except clauses that pass str(exc) on as the detail
HandlerErrorFrameStr(kind) ==
  IF kind = "timeout"
    THEN ErrorFrame(exc_text, ErrorCode.TIMEOUT)
    ELSE ErrorFrame(exc_text, ErrorCode.OPENCLAW_ERROR)

\* _handle_text, lines 385-422: the error frame of each except clause
HandlerErrorFrame(kind) ==
  CASE kind = "timeout" ->
         ErrorFrame("Agent cycle exceeded " \o ToString(cfg.timeout) \o "s timeout",
                    ErrorCode.TIMEOUT)
    [] kind \in {"openclaw", "openclaw_kept"} ->
         ErrorFrame("Agent communication error", ErrorCode.OPENCLAW_ERROR)
    [] OTHER ->
         ErrorFrame("Response processing failed", ErrorCode.OPENCLAW_ERROR)

\* FinishError with a finally clause that sets the state and sends no status frame
FinishErrorSilent(c, kind, outNow) ==
  /\ pc' = [pc EXCEPT ![c] = "read"]
  /\ errKind' = [errKind EXCEPT ![c] = "none"]
  /\ state' = [state EXCEPT ![c] = "idle"]
  /\ hres' = [hres EXCEPT ![c] = kind]
  /\ out' = [out EXCEPT ![c] =
               IF cliOpen[c] THEN outNow \o <<HandlerErrorFrame(kind)>> ELSE outNow]

\* _handle_text: the rest of an except clause once handler.close() has returned,
\* then the finally clause; a failed write to the client is swallowed
FinishError(c, kind, outNow) ==
  /\ pc' = [pc EXCEPT ![c] = "read"]
  /\ errKind' = [errKind EXCEPT ![c] = "none"]
  /\ state' = [state EXCEPT ![c] = "idle"]
  /\ hres' = [hres EXCEPT ![c] = kind]
  /\ out' = [out EXCEPT ![c] =
               IF cliOpen[c]
                 THEN outNow \o <<HandlerErrorFrame(kind), StatusFrame("idle")>>
                 ELSE outNow]

\* Raise with except clauses that leave the handler open
RaiseKeepOpen(c, kind, outNow, so) ==
  /\ DropLocals(c)
  /\ UNCHANGED <<hclosed, client_ws, connected, current_session, touched>>
  /\ sockOpen' = so
  /\ FinishError(c, kind, outNow)

\* _handle_text: an exception of the given kind leaves handler.handle(); the
\* except clause calls handler.close(), which suspends in _ws.close() when the
\* shared client holds a socket.  so is sockOpen as this step has left it.
Raise(c, kind, outNow, so) ==
  /\ DropLocals(c)
  /\ hclosed' = [hclosed EXCEPT ![c] = TRUE]
  /\ client_ws' = client_ws
  /\ connected' = FALSE
  /\ current_session' = current_session
  /\ IF cfg.handler = "openclaw" /\ client_ws # NoWs
       THEN /\ sockOpen' = [so EXCEPT ![client_ws] = FALSE]
            /\ touched' = [touched EXCEPT ![client_ws] = @ \cup {c}]
            /\ pc' = [pc EXCEPT ![c] = "err_close"]
            /\ errKind' = [errKind EXCEPT ![c] = kind]
            /\ out' = [out EXCEPT ![c] = outNow]
            /\ UNCHANGED <<state, hres>>
       ELSE /\ sockOpen' = so
            /\ touched' = touched
            /\ FinishError(c, kind, outNow)

\* ensure_connected: "await self._close_ws()" and then raise OpenClawError
FailClose(c, so) ==
  IF client_ws # NoWs
    THEN /\ sockOpen' = [so EXCEPT ![client_ws] = FALSE]
         /\ touched' = [touched EXCEPT ![client_ws] = @ \cup {c}]
         /\ pc' = [pc EXCEPT ![c] = "ec_failClose"]
         /\ UNCHANGED <<errKind, out, state, hres, hclosed, client_ws, connected,
                        current_session, rsock, req_id, nev>>
    ELSE Raise(c, "openclaw", out[c], so)

\* handler.handle(), from its call to its first suspension
HandleStart(c) ==
  IF cfg.handler = "mock"
    THEN \* MockResponseHandler.handle: asyncio.sleep(0.1)
         /\ pc' = [pc EXCEPT ![c] = "mock_sleep"]
         /\ UNCHANGED <<rsock, req_id, next_id, sockOpen, touched>>
    ELSE IF connected /\ client_ws # NoWs
    THEN \* ensure_connected returns at once; send_message sends the agent request
         /\ req_id' = [req_id EXCEPT ![c] = next_id]
         /\ next_id' = next_id + 1
         /\ rsock' = [rsock EXCEPT ![c] = client_ws]
         /\ touched' = [touched EXCEPT ![client_ws] = @ \cup {c}]
         /\ pc' = [pc EXCEPT ![c] = "sm_send"]
         /\ sockOpen' = sockOpen
    ELSE IF client_ws # NoWs
    THEN \* ensure_connected closes the stale socket first
         /\ sockOpen' = [sockOpen EXCEPT ![client_ws] = FALSE]
         /\ touched' = [touched EXCEPT ![client_ws] = @ \cup {c}]
         /\ pc' = [pc EXCEPT ![c] = "ec_closeStale"]
         /\ UNCHANGED <<rsock, req_id, next_id>>
    ELSE \* ensure_connected resets the counter and connects
         /\ next_id' = 1
         /\ pc' = [pc EXCEPT ![c] = "ec_connect"]
         /\ UNCHANGED <<rsock, req_id, sockOpen, touched>>

\* BeginText without line 379, the status=thinking frame
BeginTextUnannounced(c, msg, outNow) ==
  /\ state' = [state EXCEPT ![c] = "thinking"]
  /\ hmsg' = [hmsg EXCEPT ![c] = msg]
  /\ out' = [out EXCEPT ![c] = outNow]
  /\ current_session' = current_session
  /\ HandleStart(c)

\* _handle_text, from its start to the first suspension of the handler; the
\* callers have just written to the client socket, which is open
BeginText(c, msg, outNow) ==
  /\ state' = [state EXCEPT ![c] = "thinking"]
  /\ hmsg' = [hmsg EXCEPT ![c] = msg]
  /\ out' = [out EXCEPT ![c] = outNow \o <<StatusFrame("thinking")>>]
  /\ current_session' = current_session
  /\ HandleStart(c)

\* FinishOk with a finally clause that announces idle twice
FinishOkTwice(c, outNow) ==
  /\ DropLocals(c)
  /\ pc' = [pc EXCEPT ![c] = "read"]
  /\ state' = [state EXCEPT ![c] = "idle"]
  /\ hres' = [hres EXCEPT ![c] = "ok"]
  /\ out' = [out EXCEPT ![c] = outNow \o <<StatusFrame("idle"), StatusFrame("idle")>>]

\* _handle_text: handler.handle() has returned; the finally clause
FinishOk(c, outNow) ==
  /\ DropLocals(c)
  /\ pc' = [pc EXCEPT ![c] = "read"]
  /\ state' = [state EXCEPT ![c] = "idle"]
  /\ hres' = [hres EXCEPT ![c] = "ok"]
  /\ out' = [out EXCEPT ![c] = outNow \o <<StatusFrame("idle")>>]

\* a mock handler that fails after it has written its end frame
MockWakeFailing(c) ==
  /\ pc[c] = "mock_sleep"
  /\ Raise(c, "other",
           IF cliOpen[c]
             THEN out[c] \o <<StatusFrame("streaming")>>
                         \o [k \in 1..Len(MOCK_DELTAS) |-> AssistantFrame(MOCK_DELTAS[k])]
                         \o <<EndFrame>>
             ELSE out[c],
           sockOpen)
  /\ UNCHANGED <<vEnv, vShared>>

\* MockResponseHandler.handle after the sleep
MockWake(c) ==
  /\ pc[c] = "mock_sleep"
  /\ IF cliOpen[c]
       THEN /\ FinishOk(c, out[c] \o <<StatusFrame("streaming")>>
                               \o [k \in 1..Len(MOCK_DELTAS) |-> AssistantFrame(MOCK_DELTAS[k])]
                               \o <<EndFrame>>)
            /\ UNCHANGED <<errKind, hclosed, client_ws, connected, sockOpen, touched,
                           current_session>>
       ELSE Raise(c, "other", out[c], sockOpen)
  /\ UNCHANGED <<vEnv, vShared>>

\* ------------------------------------------------- upstream agent client

\* what the upstream answers a request with
ResOutcomes == {"ok", "notok", "mismatch", "timeout", "wsexc", "badjson", "nonobject"}

\* what the event stream delivers: an assistant event with its delta (possibly
\* empty), a tool event, a message that is no agent event, malformed JSON, a
\* lifecycle end, a lifecycle error, a JSON value that is not an object, or
\* the close of the connection
StreamEvents ==
  [k : {"delta"}, d : cfg.deltas \cup {""}] \cup
  [k : {"tool", "nonagent", "badjson", "end", "error", "nonobject", "closed"}, d : {""}]

\* Skipped for an iterator that passes empty deltas on
SkippedButEmpty(e) == e.k \in {"tool", "nonagent", "badjson"}

\* _stream_deltas: the messages the iterator passes over
Skipped(e) == e.k \in {"tool", "nonagent", "badjson"} \/ (e.k = "delta" /\ e.d = "")

\* a send on an upstream socket returns (TRUE) or raises ConnectionClosed (FALSE):
\* it raises on a socket this side has closed, and the upstream may have closed
\* the socket by now
SendOutcomes(s) == IF sockOpen[s] THEN BOOLEAN ELSE {FALSE}

\* ensure_connected sets _connected (line 86); send_message, lines 99-114
SendAgentReq(c) ==
  IF client_ws = NoWs
    THEN /\ Raise(c, "openclaw", out[c], sockOpen)
         /\ UNCHANGED vShared
    ELSE /\ req_id' = [req_id EXCEPT ![c] = next_id]
         /\ next_id' = next_id + 1
         /\ rsock' = [rsock EXCEPT ![c] = client_ws]
         /\ touched' = [touched EXCEPT ![client_ws] = @ \cup {c}]
         /\ pc' = [pc EXCEPT ![c] = "sm_send"]
         /\ connected' = TRUE
         /\ UNCHANGED <<errKind, out, state, hres, hclosed, client_ws, current_session,
                        sockOpen, nev, nsock, creator>>

\* ensure_connected: the close of the stale socket returns; reset the counter, connect
EcCloseStale(c) ==
  /\ pc[c] = "ec_closeStale"
  /\ client_ws' = NoWs
  /\ connected' = FALSE
  /\ next_id' = 1
  /\ pc' = [pc EXCEPT ![c] = "ec_connect"]
  /\ UNCHANGED <<vEnv, errKind, rsock, req_id, nev, state, hres, hclosed, out,
                 current_session, nsock, sockOpen, creator, touched>>

\* ensure_connected: websockets.connect returns or fails; on success the auth
\* request is sent on the new socket
EcConnect(c) ==
  /\ pc[c] = "ec_connect"
  /\ \/ /\ nsock < MaxSocks
        /\ LET s == nsock + 1 IN
           /\ nsock' = s
           /\ sockOpen' = [sockOpen EXCEPT ![s] = TRUE]
           /\ creator' = [creator EXCEPT ![s] = c]
           /\ touched' = [touched EXCEPT ![s] = {c}]
           /\ client_ws' = s
           /\ req_id' = [req_id EXCEPT ![c] = next_id]
           /\ next_id' = next_id + 1
           /\ rsock' = [rsock EXCEPT ![c] = s]
           /\ pc' = [pc EXCEPT ![c] = "ec_authSend"]
           /\ UNCHANGED <<errKind, nev, state, hres, hclosed, out, current_session,
                          connected>>
     \/ /\ Raise(c, "openclaw", out[c], sockOpen)
        /\ UNCHANGED vShared
  /\ UNCHANGED vEnv

\* ensure_connected: the send of the auth request returns; recv() on self._ws
EcAuthSend(c) ==
  /\ pc[c] = "ec_authSend"
  /\ \E sent \in SendOutcomes(rsock[c]) :
     IF ~sent
       THEN FailClose(c, [sockOpen EXCEPT ![rsock[c]] = FALSE]) /\ UNCHANGED vShared
     ELSE IF client_ws = NoWs
       THEN Raise(c, "other", out[c], sockOpen) /\ UNCHANGED vShared
     ELSE IF RecvPending(c, client_ws) # {}
       THEN FailClose(c, sockOpen) /\ UNCHANGED vShared
     ELSE /\ rsock' = [rsock EXCEPT ![c] = client_ws]
          /\ pc' = [pc EXCEPT ![c] = "ec_authRecv"]
          /\ UNCHANGED <<errKind, req_id, nev, state, hres, hclosed, out, current_session,
                         vClient, vSock>>
  /\ UNCHANGED vEnv

\* ensure_connected: the outcome r of the wait for the auth response; lines
\* 71-86, then send_message goes on to send the agent request
EcAuthRecvEv(c, r) ==
  /\ pc[c] = "ec_authRecv"
  /\ IF ~sockOpen[rsock[c]]
       THEN FailClose(c, sockOpen) /\ UNCHANGED vShared
       ELSE   CASE r = "ok" -> SendAgentReq(c)
                [] r = "nonobject" -> Raise(c, "other", out[c], sockOpen) /\ UNCHANGED vShared
                [] OTHER -> FailClose(c, sockOpen) /\ UNCHANGED vShared
  /\ UNCHANGED vEnv

\* ensure_connected: the auth response arrives (or not)
EcAuthRecv(c) == \E r \in ResOutcomes : EcAuthRecvEv(c, r)

\* ensure_connected: _close_ws returns on a failure path; raise OpenClawError
EcFailClose(c) ==
  /\ pc[c] = "ec_failClose"
  /\ hclosed' = [hclosed EXCEPT ![c] = TRUE]
  /\ client_ws' = NoWs
  /\ connected' = FALSE
  /\ DropLocals(c)
  /\ FinishError(c, "openclaw", out[c])
  /\ UNCHANGED <<vEnv, vShared, current_session, sockOpen, touched>>

\* send_message: the send of the agent request returns; recv() on self._ws
SmSend(c) ==
  /\ pc[c] = "sm_send"
  /\ \E sent \in SendOutcomes(rsock[c]) :
     IF ~sent
       THEN Raise(c, "openclaw", out[c], [sockOpen EXCEPT ![rsock[c]] = FALSE])
            /\ UNCHANGED vShared
     ELSE IF client_ws = NoWs
       THEN Raise(c, "other", out[c], sockOpen) /\ UNCHANGED vShared
     ELSE IF RecvPending(c, client_ws) # {}
       THEN Raise(c, "openclaw", out[c], sockOpen) /\ UNCHANGED vShared
     ELSE /\ rsock' = [rsock EXCEPT ![c] = client_ws]
          /\ pc' = [pc EXCEPT ![c] = "sm_recv"]
          /\ UNCHANGED <<errKind, req_id, nev, state, hres, hclosed, out, current_session,
                         vClient, vSock>>
  /\ UNCHANGED vEnv

\* send_message: the outcome r of the wait for the response to the agent
\* request; on acceptance the handler sends status=streaming and starts the
\* delta iterator
SmRecvEv(c, r) ==
  /\ pc[c] = "sm_recv"
  /\ IF ~sockOpen[rsock[c]]
       THEN Raise(c, "openclaw", out[c], sockOpen) /\ UNCHANGED vShared
       ELSE   CASE r = "ok" ->
                     IF ~cliOpen[c]
                       THEN Raise(c, "other", out[c], sockOpen) /\ UNCHANGED vShared
                     ELSE IF client_ws = NoWs
                       THEN Raise(c, "openclaw", out[c] \o <<StatusFrame("streaming")>>,
                                  sockOpen) /\ UNCHANGED vShared
                     ELSE IF RecvPending(c, client_ws) # {}
                       THEN Raise(c, "other", out[c] \o <<StatusFrame("streaming")>>,
                                  sockOpen) /\ UNCHANGED vShared
                     ELSE /\ out' = [out EXCEPT ![c] = @ \o <<StatusFrame("streaming")>>]
                          /\ rsock' = [rsock EXCEPT ![c] = client_ws]
                          /\ nev' = [nev EXCEPT ![c] = 0]
                          /\ pc' = [pc EXCEPT ![c] = "st_recv"]
                          /\ UNCHANGED <<errKind, req_id, state, hres, hclosed,
                                         current_session, vClient, vSock>>
                [] r = "nonobject" -> Raise(c, "other", out[c], sockOpen) /\ UNCHANGED vShared
                [] r = "notok" ->
                     Raise(c, "openclaw_kept", out[c], sockOpen) /\ UNCHANGED vShared
                [] OTHER -> Raise(c, "openclaw", out[c], sockOpen) /\ UNCHANGED vShared
  /\ UNCHANGED vEnv

\* send_message: the response to the agent request arrives (or not)
SmRecv(c) == \E r \in ResOutcomes : SmRecvEv(c, r)

\* StRecvEv with an iterator that ends cleanly when the upstream closes the
\* connection, so that the handler goes on to send end
StRecvEvCleanClose(c, e) ==
  /\ pc[c] = "st_recv"
  /\ IF ~sockOpen[rsock[c]]
       THEN Raise(c, "openclaw", out[c], sockOpen) /\ UNCHANGED vShared
     ELSE IF Skipped(e)
       THEN UNCHANGED <<pc, errKind, rsock, req_id, nev, state, hres, hclosed, out,
                        current_session, vClient, vSock>>
     ELSE CASE e.k = "delta" ->
                 /\ nev[c] < MaxEvents
                 /\ IF cliOpen[c]
                      THEN /\ out' = [out EXCEPT ![c] = @ \o <<AssistantFrame(e.d)>>]
                           /\ nev' = [nev EXCEPT ![c] = @ + 1]
                           /\ UNCHANGED <<pc, errKind, rsock, req_id, state, hres, hclosed,
                                          current_session, vClient, vSock>>
                      ELSE Raise(c, "other", out[c], sockOpen) /\ UNCHANGED vShared
            [] e.k = "end" ->
                 IF cliOpen[c]
                   THEN /\ FinishOk(c, out[c] \o <<EndFrame>>)
                        /\ UNCHANGED <<errKind, hclosed, current_session, vClient,
                                       nsock, sockOpen, creator, touched>>
                   ELSE Raise(c, "other", out[c], sockOpen) /\ UNCHANGED vShared
            [] e.k = "error" ->
                 Raise(c, "openclaw_kept", out[c], sockOpen) /\ UNCHANGED vShared
            [] e.k = "closed" ->
                 /\ cliOpen[c]
                 /\ FinishOk(c, out[c] \o <<EndFrame>>)
                 /\ sockOpen' = [sockOpen EXCEPT ![rsock[c]] = FALSE]
                 /\ UNCHANGED <<errKind, hclosed, current_session, vClient,
                                nsock, creator, touched>>
            [] OTHER -> Raise(c, "other", out[c], sockOpen) /\ UNCHANGED vShared
  /\ UNCHANGED vEnv

\* _stream_deltas and the loop of OpenClawResponseHandler.handle: the next
\* upstream message e arrives
StRecvEv(c, e) ==
  /\ pc[c] = "st_recv"
  /\ IF ~sockOpen[rsock[c]]
       THEN Raise(c, "openclaw", out[c], sockOpen) /\ UNCHANGED vShared
     ELSE IF Skipped(e)
       THEN UNCHANGED <<pc, errKind, rsock, req_id, nev, state, hres, hclosed, out,
                        current_session, vClient, vSock>>
     ELSE CASE e.k = "delta" ->
                 /\ nev[c] < MaxEvents
                 /\ IF cliOpen[c]
                      THEN /\ out' = [out EXCEPT ![c] = @ \o <<AssistantFrame(e.d)>>]
                           /\ nev' = [nev EXCEPT ![c] = @ + 1]
                           /\ UNCHANGED <<pc, errKind, rsock, req_id, state, hres, hclosed,
                                          current_session, vClient, vSock>>
                      ELSE Raise(c, "other", out[c], sockOpen) /\ UNCHANGED vShared
            [] e.k = "end" ->
                 IF cliOpen[c]
                   THEN /\ FinishOk(c, out[c] \o <<EndFrame>>)
                        /\ UNCHANGED <<errKind, hclosed, current_session, vClient,
                                       nsock, sockOpen, creator, touched>>
                   ELSE Raise(c, "other", out[c], sockOpen) /\ UNCHANGED vShared
            [] e.k = "error" ->
                 Raise(c, "openclaw_kept", out[c], sockOpen) /\ UNCHANGED vShared
            [] e.k = "closed" ->
                 Raise(c, "openclaw", out[c], [sockOpen EXCEPT ![rsock[c]] = FALSE])
                 /\ UNCHANGED vShared
            [] OTHER -> Raise(c, "other", out[c], sockOpen) /\ UNCHANGED vShared
  /\ UNCHANGED vEnv

\* _stream_deltas: the next upstream message
StRecv(c) == \E e \in StreamEvents : StRecvEv(c, e)

HandlerPcs ==
  {"mock_sleep", "ec_closeStale", "ec_connect", "ec_authSend", "ec_authRecv",
   "ec_failClose", "sm_send", "sm_recv", "st_recv"}

\* a timeout that guards the handler until the agent has accepted the request,
\* and not the stream of events
HandlerTimeoutBeforeStream(c) ==
  /\ pc[c] \in HandlerPcs \ {"st_recv"}
  /\ Raise(c, "timeout", out[c], sockOpen)
  /\ UNCHANGED <<vEnv, vShared>>

\* _handle_text: asyncio.wait_for cancels the handler after agent_timeout seconds
HandlerTimeout(c) ==
  /\ pc[c] \in HandlerPcs
  /\ Raise(c, "timeout", out[c], sockOpen)
  /\ UNCHANGED <<vEnv, vShared>>

\* ErrClose with an except clause that lets a failed write of the error frame
\* leave the text cycle
ErrCloseAborted(c) ==
  /\ pc[c] = "err_close"
  /\ client_ws' = NoWs
  /\ connected' = FALSE
  /\ IF cliOpen[c]
       THEN FinishError(c, errKind[c], out[c])
       ELSE /\ pc' = [pc EXCEPT ![c] = "done"]
            /\ errKind' = [errKind EXCEPT ![c] = "none"]
            /\ state' = [state EXCEPT ![c] = "idle"]
            /\ hres' = [hres EXCEPT ![c] = errKind[c]]
            /\ out' = out
  /\ UNCHANGED <<vEnv, vReq, hclosed, current_session, sockOpen, touched>>

\* _handle_text: handler.close() returns from _ws.close(); error frame, finally clause
ErrClose(c) ==
  /\ pc[c] = "err_close"
  /\ client_ws' = NoWs
  /\ connected' = FALSE
  /\ FinishError(c, errKind[c], out[c])
  /\ UNCHANGED <<vEnv, vReq, hclosed, current_session, sockOpen, touched>>

\* ------------------------------------------------ session: the read loop
\* TextAllowed without the state check
TextAllowedAlways(st) == TRUE

\* _dispatch: the state each control frame is allowed in
TextAllowed(st) == st = "idle"
StartAllowed(st) == st = "idle"
\* StopAllowed without the state check
StopAllowedAlways(st) == TRUE
StopAllowed(st) == st = "recording"

\* what the transcriber returns for a recording
Texts == {"hello world"}
TranscribeOutcomes ==
  [k : {"ok"}, text : Texts] \cup [k : {"failed", "timeout", "other"}, text : {""}]

\* the text messages and the chunk lengths the read loop can take next: the
\* head of the receive queue, or a message the client sends now
RawsIn(c) == IF recv_queue[c] # <<>> THEN {Head(recv_queue[c]).raw} ELSE cfg.raws
LensIn(c) == IF recv_queue[c] # <<>> THEN {} ELSE cfg.lens

\* handle(): the read loop delivers the next message of an open socket
ReadPre(c) ==
  /\ pc[c] = "read"
  /\ cliOpen[c]
  /\ IF recv_queue[c] # <<>>
       THEN /\ recv_queue' = [recv_queue EXCEPT ![c] = Tail(@)]
            /\ budget' = budget
       ELSE /\ budget[c] > 0
            /\ budget' = [budget EXCEPT ![c] = @ - 1]
            /\ recv_queue' = recv_queue
  /\ hres' = [hres EXCEPT ![c] = "none"]
  /\ hclosed' = [hclosed EXCEPT ![c] = FALSE]

vReadRest == <<vCfg, now, old_session, errKind, rsock, req_id, nev, hmsg,
               vCli, vSlot, vClient, vSock>>

Emit(c, frames) == [out EXCEPT ![c] = @ \o frames]

\* a wall-clock check that ends a recording at the limit
RecordingExpiredAtLimit(start, t) ==
  start # NoTime /\ t - start >= MAX_RECORDING_SECONDS

\* _handle_binary, lines 205-207: the recording has lasted longer than the limit
RecordingExpired(start, t) ==
  start # NoTime /\ t - start > MAX_RECORDING_SECONDS

\* a state check that takes binary data in every state
BinaryAcceptedAlways(st) == TRUE

\* _handle_binary, line 199: the state binary data is accepted in
BinaryAccepted(st) == st = "recording"

\* handle() reads a binary message of n bytes: _handle_binary
HandleBinary(c, n) ==
    /\ ReadPre(c)
    /\ pc' = pc
    /\ IF ~BinaryAccepted(state[c]) \/ ~audio_buffer[c].present
         THEN UNCHANGED <<out, vSess>>
       ELSE IF RecordingExpired(recording_start[c], now)
         THEN /\ audio_buffer' = [audio_buffer EXCEPT ![c] = ResetBuffer(@)]
              /\ recording_start' = [recording_start EXCEPT ![c] = NoTime]
              /\ state' = [state EXCEPT ![c] = "idle"]
              /\ out' = Emit(c, <<ErrorFrame("Recording exceeded "
                                               \o ToString(MAX_RECORDING_SECONDS)
                                               \o "s limit", ErrorCode.BUFFER_OVERFLOW),
                                  StatusFrame("idle")>>)
       ELSE IF AppendMisaligned(audio_buffer[c], n)
         THEN /\ audio_buffer' = [audio_buffer EXCEPT ![c] = ResetBuffer(@)]
              /\ state' = [state EXCEPT ![c] = "idle"]
              /\ out' = Emit(c, <<ErrorFrame("Invalid audio data format",
                                             ErrorCode.INVALID_FRAME),
                                  StatusFrame("idle")>>)
              /\ UNCHANGED recording_start
       ELSE IF AppendOverflows(audio_buffer[c], n)
         THEN /\ audio_buffer' = [audio_buffer EXCEPT ![c] = ResetBuffer(@)]
              /\ state' = [state EXCEPT ![c] = "idle"]
              /\ out' = Emit(c, <<ErrorFrame("Audio buffer overflow",
                                             ErrorCode.BUFFER_OVERFLOW),
                                  StatusFrame("idle")>>)
              /\ UNCHANGED recording_start
       ELSE /\ audio_buffer' = [audio_buffer EXCEPT ![c] = AppendChunk(@, n)]
            /\ UNCHANGED <<out, state, recording_start>>
    /\ UNCHANGED vReadRest

\* handle(), a binary message
ReadBinary(c) == \E n \in LensIn(c) : HandleBinary(c, n)

\* ReadInvalid with a status=idle frame after the error frame
ReadInvalidThenIdle(c) ==
  \E raw \in RawsIn(c) :
    /\ ~ParseTextFrame(raw).ok
    /\ ReadPre(c)
    /\ out' = Emit(c, <<ErrorFrame(ParseTextFrame(raw).detail, ErrorCode.INVALID_FRAME),
                        StatusFrame("idle")>>)
    /\ UNCHANGED <<pc, vSess, vReadRest>>

\* HandleInvalid with an except clause that also abandons the recording
HandleInvalidAborting(c, raw) ==
  /\ ~ParseTextFrame(raw).ok
  /\ ReadPre(c)
  /\ out' = Emit(c, <<ErrorFrame(ParseTextFrame(raw).detail, ErrorCode.INVALID_FRAME)>>)
  /\ state' = [state EXCEPT ![c] = "idle"]
  /\ audio_buffer' = [audio_buffer EXCEPT ![c] = NoBuf]
  /\ UNCHANGED <<pc, recording_start, vReadRest>>

\* handle() reads the text message raw and parse_text_frame raises ProtocolError
HandleInvalid(c, raw) ==
  /\ ~ParseTextFrame(raw).ok
  /\ ReadPre(c)
  /\ out' = Emit(c, <<ErrorFrame(ParseTextFrame(raw).detail, ErrorCode.INVALID_FRAME)>>)
  /\ UNCHANGED <<pc, vSess, vReadRest>>

\* handle(): parse_text_frame raises ProtocolError
ReadInvalid(c) == \E raw \in RawsIn(c) : HandleInvalid(c, raw)

\* _dispatch, frame type text
ReadText(c) ==
  \E raw \in RawsIn(c) :
    /\ ParseTextFrame(raw).ok
    /\ raw.data.type.s = "text"
    /\ ReadPre(c)
    /\ IF ~TextAllowed(state[c])
         THEN /\ out' = Emit(c, <<ErrorFrame("Cannot process text while session is busy",
                                             ErrorCode.INVALID_STATE)>>)
              /\ UNCHANGED <<pc, vSess, vReadRest>>
         ELSE /\ BeginText(c, raw.data.message.s, out[c])
              /\ UNCHANGED <<vCfg, now, old_session, errKind, nev, vCli, audio_buffer,
                             recording_start, acceptSeq, client_ws, connected, nsock,
                             creator>>

\* _dispatch, frame type pong
ReadPong(c) ==
  \E raw \in RawsIn(c) :
    /\ ParseTextFrame(raw).ok
    /\ raw.data.type.s = "pong"
    /\ ReadPre(c)
    /\ UNCHANGED <<pc, out, vSess, vReadRest>>

\* StartRecording without line 293, the recording start
StartRecordingUntimed(c, sample_rate, channels, sample_width) ==
  /\ audio_buffer' = [audio_buffer EXCEPT ![c] =
                        NewBuffer(sample_rate, channels, sample_width)]
  /\ recording_start' = recording_start
  /\ state' = [state EXCEPT ![c] = "recording"]
  /\ out' = Emit(c, <<StatusFrame("recording")>>)

\* _handle_start_audio, lines 288-295: a valid format starts the recording
StartRecording(c, sample_rate, channels, sample_width) ==
  /\ audio_buffer' = [audio_buffer EXCEPT ![c] =
                        NewBuffer(sample_rate, channels, sample_width)]
  /\ recording_start' = [recording_start EXCEPT ![c] = now]
  /\ state' = [state EXCEPT ![c] = "recording"]
  /\ out' = Emit(c, <<StatusFrame("recording")>>)

\* handle() reads the text message raw, a start_audio frame: _dispatch and
\* _handle_start_audio
HandleStartAudio(c, raw) ==
    /\ ParseTextFrame(raw).ok
    /\ raw.data.type.s = "start_audio"
    /\ ReadPre(c)
    /\ pc' = pc
    /\ LET sample_rate == raw.data.sampleRate.i
           channels == raw.data.channels.i
           sample_width == raw.data.sampleWidth.i
       IN IF ~StartAllowed(state[c])
            THEN /\ out' = Emit(c, <<ErrorFrame("Cannot start audio while session is busy",
                                                ErrorCode.INVALID_STATE)>>)
                 /\ UNCHANGED vSess
          ELSE IF sample_width # 2
            THEN /\ out' = Emit(c, <<ErrorFrame("Unsupported sample width: "
                                                  \o ToString(sample_width)
                                                  \o " (only 16-bit PCM supported)",
                                                ErrorCode.INVALID_FRAME)>>)
                 /\ UNCHANGED vSess
          ELSE IF ~(8000 <= sample_rate /\ sample_rate <= 48000)
            THEN /\ out' = Emit(c, <<ErrorFrame("Invalid sample rate: "
                                                  \o ToString(sample_rate)
                                                  \o " (expected 8000-48000)",
                                                ErrorCode.INVALID_FRAME)>>)
                 /\ UNCHANGED vSess
          ELSE IF channels \notin {1, 2}
            THEN /\ out' = Emit(c, <<ErrorFrame("Invalid channels: " \o ToString(channels)
                                                  \o " (must be 1 or 2)",
                                                ErrorCode.INVALID_FRAME)>>)
                 /\ UNCHANGED vSess
          ELSE StartRecording(c, sample_rate, channels, sample_width)
    /\ UNCHANGED vReadRest

\* handle(), a start_audio frame
ReadStartAudio(c) == \E raw \in RawsIn(c) : HandleStartAudio(c, raw)

\* _dispatch, frame type stop_audio, and _handle_stop_audio up to the transcriber
ReadStopAudio(c) ==
  \E raw \in RawsIn(c) :
    /\ ParseTextFrame(raw).ok
    /\ raw.data.type.s = "stop_audio"
    /\ ReadPre(c)
    /\ IF ~StopAllowed(state[c])
         THEN /\ out' = Emit(c, <<ErrorFrame("Cannot stop audio - not recording",
                                             ErrorCode.INVALID_STATE)>>)
              /\ UNCHANGED <<pc, vSess>>
         ELSE /\ recording_start' = [recording_start EXCEPT ![c] = NoTime]
              /\ audio_buffer' = [audio_buffer EXCEPT ![c] = NoBuf]
              /\ IF ~audio_buffer[c].present \/ IsEmpty(audio_buffer[c])
                   THEN /\ state' = [state EXCEPT ![c] = "idle"]
                        /\ pc' = pc
                        /\ out' = Emit(c, <<StatusFrame("transcribing"),
                                            ErrorFrame("No audio data received",
                                                       ErrorCode.TRANSCRIPTION_FAILED),
                                            StatusFrame("idle")>>)
                 ELSE IF ~cfg.transcriber
                   THEN /\ state' = [state EXCEPT ![c] = "idle"]
                        /\ pc' = pc
                        /\ out' = Emit(c, <<StatusFrame("transcribing"),
                                            ErrorFrame("Transcriber not configured",
                                                       ErrorCode.TRANSCRIPTION_FAILED),
                                            StatusFrame("idle")>>)
                 ELSE /\ state' = [state EXCEPT ![c] = "transcribing"]
                      /\ pc' = [pc EXCEPT ![c] = "transcribing"]
                      /\ out' = Emit(c, <<StatusFrame("transcribing")>>)
    /\ UNCHANGED vReadRest

\* except clauses that pass the kind of the failure on as the detail
TranscribeErrorFrameRaw(kind) == ErrorFrame(kind, ErrorCode.TRANSCRIPTION_FAILED)

\* _handle_stop_audio: the error frame of each except clause
TranscribeErrorFrame(kind) ==
  CASE kind = "failed" ->
         ErrorFrame("Transcription failed", ErrorCode.TRANSCRIPTION_FAILED)
    [] kind = "timeout" ->
         ErrorFrame("Transcription timed out", ErrorCode.TIMEOUT)
    [] OTHER ->
         ErrorFrame("Internal transcription error", ErrorCode.INTERNAL_ERROR)

\* a text frame that carries no message
TextFrameOfNothing(t) == [type |-> "text", message |-> ""]

\* _handle_stop_audio, line 375: the frame _handle_text is called with
TextFrameOf(t) == [type |-> "text", message |-> t]

\* _handle_stop_audio: transcribe() returns or raises with the outcome r; on
\* success the transcription frame, then _handle_text with the text
TranscribeEv(c, r) ==
  /\ pc[c] = "transcribing"
  /\   IF r.k = "ok"
         THEN IF cliOpen[c]
                THEN /\ BeginText(c, TextFrameOf(r.text).message,
                                  out[c] \o <<TranscriptionFrame(r.text)>>)
                     /\ UNCHANGED <<errKind, nev, hres, hclosed, client_ws, connected,
                                    nsock, creator>>
                ELSE \* ConnectionClosed leaves handle(); the finally clause of handler()
                     /\ pc' = [pc EXCEPT ![c] = "done"]
                     /\ current_session' = SlotAfterEnd(c)
                     /\ UNCHANGED <<errKind, nev, hres, hclosed, out, state, hmsg,
                                    vClient, vSock, rsock, req_id>>
         ELSE /\ state' = [state EXCEPT ![c] = "idle"]
              /\ IF cliOpen[c]
                   THEN /\ out' = Emit(c, <<TranscribeErrorFrame(r.k), StatusFrame("idle")>>)
                        /\ pc' = [pc EXCEPT ![c] = "read"]
                        /\ current_session' = current_session
                   ELSE /\ out' = out
                        /\ pc' = [pc EXCEPT ![c] = "done"]
                        /\ current_session' = SlotAfterEnd(c)
              /\ UNCHANGED <<errKind, nev, hres, hclosed, hmsg, vClient, vSock, rsock, req_id>>
  /\ UNCHANGED <<vCfg, now, vIn, old_session, vCli, audio_buffer, recording_start,
                 acceptSeq>>

\* _handle_stop_audio: the transcriber is done
TranscribeDone(c) == \E r \in TranscribeOutcomes : TranscribeEv(c, r)

\* a client sends a text message while the task of its session is suspended in
\* the transcriber or in the response handler: the socket queues the message
\* until handle() comes back to its read loop (sentIn: the state tag at the
\* time of the send, kept for the properties)
ClientSend(c) ==
  /\ pc[c] \in HandlerPcs \cup {"transcribing", "err_close"}
  /\ cliOpen[c]
  /\ budget[c] > 0
  /\ Len(recv_queue[c]) < MaxQueued
  /\ \E raw \in cfg.raws :
       recv_queue' = [recv_queue EXCEPT ![c] = Append(@, [raw |-> raw, sentIn |-> state[c]])]
  /\ budget' = [budget EXCEPT ![c] = @ - 1]
  /\ UNCHANGED <<vCfg, now, out, vTask, vCli, vSess, vHist, vSlot, vClient, vSock>>

\* ------------------------------------------------------------ specifications
SessionStep(c) ==
  \/ ReadBinary(c) \/ ReadInvalid(c) \/ ReadText(c) \/ ReadPong(c)
  \/ ReadStartAudio(c) \/ ReadStopAudio(c) \/ TranscribeDone(c)
  \/ MockWake(c) \/ EcConnect(c) \/ EcAuthSend(c) \/ EcAuthRecv(c)
  \/ EcFailClose(c) \/ SmSend(c) \/ SmRecv(c) \/ StRecv(c) \/ HandlerTimeout(c)
  \/ ErrClose(c) \/ SessionEnd(c) \/ ClientDisconnect(c)

\* a configuration of the gateway (GatewayConfig, and whether main() passes a
\* transcriber and which response handler) and what its peers send: the text
\* messages and chunk lengths of the clients, the deltas of the agent, the
\* seconds the clock advances by during a recording (0: recordings are short)
Config(auth, handler, transcriber, timeout, raws, lens, deltas, tick) ==
  [auth |-> auth, handler |-> handler, transcriber |-> transcriber, timeout |-> timeout,
   raws |-> raws, lens |-> lens, deltas |-> deltas, tick |-> tick]

\* the messages of a client that talks and records without protocol errors
PlainRaws ==
  { Raw([type |-> S("text"), message |-> S("hi")]), Raw([type |-> S("stop_audio")]),
    StartAudio(16000, 1, 2) }

\* one client connection: a client that sends up to MaxFrames messages to one
\* of four gateways, or a client that sends one text message to a gateway
\* whose agent answers with two different deltas
Init ==
  /\ InitState
  /\ \/ /\ cfg \in { Config(FALSE, "mock", TRUE, 120, SessionRaws, ChunkLens, {},
                            MAX_RECORDING_SECONDS \div 2),
                     Config(FALSE, "mock", FALSE, 30, PlainRaws, {2}, {}, 0),
                     Config(FALSE, "mock", FALSE, 30,
                            InvalidRaws \cup {StartAudio(16000, 1, 2)}, {2}, {}, 0),
                     Config(TRUE, "openclaw", TRUE, 120, PlainRaws, {2}, {"a"}, 0) }
        /\ budget = [c \in Conns |-> IF c = 1 THEN MaxFrames ELSE 0]
     \/ /\ cfg = Config(FALSE, "openclaw", FALSE, 120,
                        {Raw([type |-> S("text"), message |-> S("hi")])}, {}, {"a", "b"}, 0)
        /\ budget = [c \in Conns |-> IF c = 1 THEN 1 ELSE 0]

Next ==
  \/ Tick
  \/ \E c \in {1} : Connect(c) \/ HandlerStart(c) \/ AuthRecv(c) \/ SessionStep(c)

Spec == Init /\ [][Next]_vars

\* Spec with the timers of the gateway: the wait_for around the handler and the
\* one inside transcribe() fire or the awaited call ends (30 s, agent_timeout),
\* the sleep of the mock handler ends, and the close() of the agent socket in
\* the except clauses returns (websockets bounds it with close_timeout); the
\* upstream agent, the transcriber's result and the client are free.
Fairness ==
  \A c \in {1} :
    /\ WF_vars(HandlerTimeout(c))
    /\ WF_vars(TranscribeDone(c))
    /\ WF_vars(MockWake(c))
    /\ WF_vars(ErrClose(c))

SpecLive == Init /\ [][Next]_vars /\ Fairness

\* one client connection to a gateway that transcribes, with the mock or the
\* agent handler, in runs that differ in the text of the internal exceptions
InitFailure ==
  /\ InitSession
  /\ exc_text \in ExcTexts
  /\ cfg \in { Config(FALSE, "mock", TRUE, 120, SessionRaws, ChunkLens, {},
                      MAX_RECORDING_SECONDS \div 2),
                Config(TRUE, "openclaw", TRUE, 120, PlainRaws, {2}, {"a"}, 0) }
  /\ budget = [c \in Conns |-> IF c = 1 THEN MaxFrames ELSE 0]

SpecFailure == InitFailure /\ [][Next]_vars

\* several client connections, one after the other, on a gateway with a token
\* and the agent handler; the first two clients send at most one text message
\* each, the later ones only connect; a client stays until its session is
\* back in the read loop or its socket is closed by the gateway
InitListener ==
  /\ InitState
  /\ cfg = Config(TRUE, "openclaw", FALSE, 120,
                  {Raw([type |-> S("text"), message |-> S("hi")])}, {}, {}, 0)
  /\ budget = [c \in Conns |-> IF c <= 2 THEN 1 ELSE 0]

NextListener ==
  \E c \in Conns :
    \/ Connect(c) \/ AuthRecv(c) \/ ReplaceCloseWs(c) \/ ReplaceCloseOld(c)
    \/ ReadText(c) \/ EcCloseStale(c) \/ EcConnect(c) \/ EcAuthSend(c) \/ EcAuthRecv(c)
    \/ EcFailClose(c) \/ SmSend(c) \/ SmRecv(c) \/ StRecv(c) \/ HandlerTimeout(c)
    \/ ErrClose(c) \/ SessionEnd(c)

SpecListener == InitListener /\ [][NextListener]_vars

\* one client of a gateway with the mock handler and a transcriber, which also
\* sends while its session is busy
InitQueue ==
  /\ InitState
  /\ cfg = Config(FALSE, "mock", TRUE, 120, PlainRaws, {2}, {}, 0)
  /\ budget = [c \in Conns |-> IF c = 1 THEN MaxFrames + 1 ELSE 0]

NextQueue ==
  \E c \in {1} :
    \/ Connect(c) \/ HandlerStart(c) \/ ClientSend(c)
    \/ ReadBinary(c) \/ ReadText(c) \/ ReadStartAudio(c) \/ ReadStopAudio(c)
    \/ TranscribeDone(c) \/ MockWake(c) \/ HandlerTimeout(c) \/ SessionEnd(c)

SpecQueue == InitQueue /\ [][NextQueue]_vars

\* two clients of a gateway without a token and with the agent handler, one
\* after the other: the first sends at most one text message, the second at
\* most two
InitRecovery ==
  /\ InitState
  /\ cfg = Config(FALSE, "openclaw", FALSE, 120,
                  {Raw([type |-> S("text"), message |-> S("hi")])}, {}, {}, 0)
  /\ budget = [c \in Conns |-> IF c <= 2 THEN c ELSE 0]

NextRecovery ==
  \E c \in {1, 2} :
    \/ Connect(c) \/ HandlerStart(c) \/ ReplaceCloseWs(c) \/ ReplaceCloseOld(c)
    \/ ReadText(c) \/ EcCloseStale(c) \/ EcConnect(c) \/ EcAuthSend(c) \/ EcAuthRecv(c)
    \/ EcFailClose(c) \/ SmSend(c) \/ SmRecv(c) \/ StRecv(c)
    \/ ErrClose(c) \/ SessionEnd(c)

SpecRecovery == InitRecovery /\ [][NextRecovery]_vars

\* the codec driven directly: parse_text_frame on the serialization of a frame,
\* validate_outbound on a frame
CodecParse ==
  /\ \E d \in CodecFrames :
       last_call' = [op |-> "parse", frame |-> d, res |-> ParseTextFrame(Serialize(d))]
  /\ UNCHANGED <<cfg, exc_text, now, vIn, out, vTask, vCli, vSess, vHist, vSlot, vClient, vSock>>

CodecValidate ==
  /\ \E d \in CodecFrames :
       last_call' = [op |-> "validate", frame |-> d, res |-> ValidateOutbound(d)]
  /\ UNCHANGED <<cfg, exc_text, now, vIn, out, vTask, vCli, vSess, vHist, vSlot, vClient, vSock>>

InitCodec ==
  /\ InitState
  /\ cfg = Config(FALSE, "mock", FALSE, 30, {}, {}, {}, 0)
  /\ budget = [c \in Conns |-> 0]

NextCodec == CodecParse \/ CodecValidate

SpecCodec == InitCodec /\ [][NextCodec]_vars

\* an AudioBuffer driven directly: constructed with one of the formats, then
\* any sequence of append and reset calls
vBufferRest == <<cfg, exc_text, now, vIn, out, vTask, vCli, state, recording_start, vHist, vSlot,
                 vClient, vSock>>

\* AudioBuffer(sample_rate, channels, sample_width)
BufferNew(c) ==
  /\ ~audio_buffer[c].present
  /\ \E f \in BufferFormats :
       audio_buffer' = [audio_buffer EXCEPT ![c] = NewBuffer(f[1], f[2], f[3])]
  /\ last_call' = [op |-> "init", n |-> 0, exc |-> "none", before |-> audio_buffer[c]]
  /\ UNCHANGED vBufferRest

\* buf.append(chunk) with a chunk of n bytes
BufferAppend(c, n) ==
  /\ audio_buffer[c].present
  /\ Len(audio_buffer[c].chunks) < MaxChunks
  /\ audio_buffer' = [audio_buffer EXCEPT ![c] = AppendCall(@, n).buf]
  /\ last_call' = [op |-> "append", n |-> n, exc |-> AppendCall(audio_buffer[c], n).exc,
                   before |-> audio_buffer[c]]
  /\ UNCHANGED vBufferRest

\* buf.append with any of the chunk lengths
BufferAppendAny(c) == \E n \in cfg.lens : BufferAppend(c, n)

\* buf.reset()
BufferReset(c) ==
  /\ audio_buffer[c].present
  /\ audio_buffer' = [audio_buffer EXCEPT ![c] = ResetBuffer(@)]
  /\ last_call' = [op |-> "reset", n |-> 0, exc |-> "none", before |-> audio_buffer[c]]
  /\ UNCHANGED vBufferRest

InitBuffer ==
  /\ InitState
  /\ cfg = Config(FALSE, "mock", FALSE, 30, {}, BufferLens, {}, 0)
  /\ budget = [c \in Conns |-> 0]

NextBuffer ==
  \E c \in {1} : BufferNew(c) \/ BufferAppendAny(c) \/ BufferReset(c)

SpecBuffer == InitBuffer /\ [][NextBuffer]_vars

\* ------------------------------------------------------------- properties
Last(seq) == seq[Len(seq)]
EndsWith(seq, tail) ==
  /\ Len(seq) >= Len(tail)
  /\ SubSeq(seq, Len(seq) - Len(tail) + 1, Len(seq)) = tail

\* the value of the last status frame before position i of o ("none": no such frame)
PrevStatus(o, i) ==
  LET js == {j \in 1..(i - 1) : IsStatus(o[j])}
  IN IF js = {} THEN "none" ELSE o[CHOOSE j \in js : \A k \in js : k <= j][2]

\* C1: every step that ends a path out of a non-idle state (a stop_audio
\* pipeline, a text cycle, a binary-frame error during recording: the session is
\* back in its read loop, and the step left the state tag changed or ended a
\* handler or transcriber wait) leaves the state tag idle and, the client socket
\* being open, has written status=idle as its last frame.
C1_ReturnsToIdle ==
  [][\A c \in Conns :
       (/\ pc'[c] = "read"
        /\ state[c] # "idle"
        /\ pc[c] # "read" \/ state'[c] # state[c])
       => /\ state'[c] = "idle"
          /\ cliOpen[c] => /\ Len(out'[c]) > Len(out[c])
                           /\ Last(out'[c]) = StatusFrame("idle")]_vars

\* the agent cycle of a voice request has timed out and the session is back
\* in idle
C1_Witness ==
  \E c \in Conns :
    /\ pc[c] = "read" /\ state[c] = "idle" /\ cliOpen[c]
    /\ hres[c] = "timeout" /\ hmsg[c] = "hello world"
    /\ Last(out[c]) = StatusFrame("idle")

\* the frame a control frame is rejected with
Rejection(c, detail) ==
  /\ out'[c] = Append(out[c], ErrorFrame(detail, ErrorCode.INVALID_STATE))
  /\ pc'[c] = "read"
  /\ state'[c] = state[c]
  /\ audio_buffer'[c] = audio_buffer[c]
  /\ recording_start'[c] = recording_start[c]
  /\ hmsg'[c] = hmsg[c]
  /\ UNCHANGED vClient

\* C2: a text or start_audio frame dispatched while the state is not idle, and a
\* stop_audio frame dispatched while the state is not recording, writes exactly
\* one error frame with code INVALID_STATE, starts neither the response handler
\* nor the transcriber (the task stays in the read loop, the agent client is
\* untouched) and leaves the state tag, the audio buffer and the recording
\* start unchanged.
C2_StateGating ==
  [][\A c \in Conns :
       /\ (ReadText(c) /\ state[c] # "idle")
            => Rejection(c, "Cannot process text while session is busy")
       /\ (ReadStartAudio(c) /\ state[c] # "idle")
            => Rejection(c, "Cannot start audio while session is busy")
       /\ (ReadStopAudio(c) /\ state[c] # "recording")
            => Rejection(c, "Cannot stop audio - not recording")]_vars

\* a session that is recording has rejected a frame and is still recording
\* into the same buffer
C2_Witness ==
  \E c \in Conns :
    /\ pc[c] = "read" /\ state[c] = "recording"
    /\ audio_buffer[c].present /\ audio_buffer[c].total_bytes > 0
    /\ Last(out[c]) \in
         { ErrorFrame("Cannot process text while session is busy", ErrorCode.INVALID_STATE),
           ErrorFrame("Cannot start audio while session is busy", ErrorCode.INVALID_STATE) }

\* C3: the frames written to one client are ordered: connected is the first
\* frame and occurs once; status=streaming follows status=thinking; an
\* assistant frame follows status=streaming with no end in between; end follows
\* status=streaming and is followed by status=idle; transcription follows
\* status=transcribing directly and is followed by status=thinking.
C3_Ordered ==
  \A c \in Conns :
    LET o == out[c] IN
    /\ o # <<>> => o[1] = ConnectedFrame
    /\ \A i \in 1..Len(o) :
         /\ o[i] = ConnectedFrame => i = 1
         /\ o[i] = StatusFrame("streaming") => PrevStatus(o, i) = "thinking"
         /\ o[i][1] = "assistant" =>
              /\ PrevStatus(o, i) = "streaming"
              /\ \A j \in 1..(i - 1) :
                   o[j] = EndFrame => \E k \in (j + 1)..(i - 1) : IsStatus(o[k])
         /\ o[i] = EndFrame =>
              /\ PrevStatus(o, i) = "streaming"
              /\ \A j \in 1..(i - 1) :
                   o[j] = EndFrame => \E k \in (j + 1)..(i - 1) : IsStatus(o[k])
              /\ i < Len(o) => o[i + 1] = StatusFrame("idle")
         /\ o[i][1] = "transcription" =>
              /\ i > 1 /\ o[i - 1] = StatusFrame("transcribing")
              /\ i < Len(o) => o[i + 1] = StatusFrame("thinking")

\* a voice cycle that has run to its end
C3_Witness ==
  \E c \in Conns : \E i \in 1..Len(out[c]) :
    /\ out[c][i] = TranscriptionFrame("hello world")
    /\ \E j \in (i + 1)..Len(out[c]) : out[c][j][1] = "assistant"
    /\ EndsWith(out[c], <<EndFrame, StatusFrame("idle")>>)

\* C4: when the response handler of a cycle has completed, the frames written
\* to the client end with end, status=idle, and stay so until the session
\* processes its next inbound frame.
C4_EndThenIdle ==
  \A c \in Conns :
    hres[c] = "ok" => EndsWith(out[c], <<EndFrame, StatusFrame("idle")>>)

\* a text cycle of the agent handler has completed after a delta
C4_Witness ==
  \E c \in Conns :
    /\ pc[c] = "read" /\ hres[c] = "ok" /\ hmsg[c] = "hi"
    /\ EndsWith(out[c], <<AssistantFrame("a"), EndFrame, StatusFrame("idle")>>)

\* the error frames of the paths that leave a non-idle state: audio errors
\* during a recording, transcription errors, response handler errors
TerminalErrors ==
  { ErrorFrame("Recording exceeded 90s limit", ErrorCode.BUFFER_OVERFLOW),
    ErrorFrame("Audio buffer overflow", ErrorCode.BUFFER_OVERFLOW),
    ErrorFrame("Invalid audio data format", ErrorCode.INVALID_FRAME),
    ErrorFrame("No audio data received", ErrorCode.TRANSCRIPTION_FAILED),
    ErrorFrame("Transcriber not configured", ErrorCode.TRANSCRIPTION_FAILED),
    ErrorFrame("Transcription failed", ErrorCode.TRANSCRIPTION_FAILED),
    ErrorFrame("Transcription timed out", ErrorCode.TIMEOUT),
    ErrorFrame("Internal transcription error", ErrorCode.INTERNAL_ERROR),
    ErrorFrame("Agent cycle exceeded " \o ToString(cfg.timeout) \o "s timeout",
               ErrorCode.TIMEOUT),
    ErrorFrame("Agent communication error", ErrorCode.OPENCLAW_ERROR),
    ErrorFrame("Response processing failed", ErrorCode.OPENCLAW_ERROR) }

\* C5 as stated: every error frame a session has written is followed, when a
\* frame follows it, by status=idle.
C5_ErrorAlwaysThenIdle ==
  \A c \in Conns : \A i \in 1..(Len(out[c]) - 1) :
    IsError(out[c][i]) => out[c][i + 1] = StatusFrame("idle")

\* C5, amended: an error frame of a path that leaves a non-idle state (audio
\* error during a recording, transcription error, handler error) is followed
\* at once by status=idle; the error frame of a parse error, of an invalid-state
\* rejection or of a start_audio validation error is the only frame its message
\* produces, no status frame follows it, and the state tag stays as it was.
C5_ErrorThenIdle ==
  [][\A c \in Conns :
       LET new == SubSeq(out'[c], Len(out[c]) + 1, Len(out'[c]))
       IN \A i \in 1..Len(new) :
            IsError(new[i]) =>
              IF new[i] \in TerminalErrors
                THEN /\ i < Len(new) /\ new[i + 1] = StatusFrame("idle")
                     /\ state'[c] = "idle"
                ELSE /\ new = <<new[i]>>
                     /\ new[i][2] \in {ErrorCode.INVALID_FRAME, ErrorCode.INVALID_STATE}
                     /\ state'[c] = state[c]]_vars

\* a parse error was answered with an error frame alone, the next message
\* started a cycle, and the error frame of the cycle's timeout was followed by
\* status=idle
C5_Witness ==
  \E c \in Conns : \E i \in 1..Len(out[c]) :
    /\ out[c][i] = ErrorFrame("Invalid JSON", ErrorCode.INVALID_FRAME)
    /\ i < Len(out[c]) /\ out[c][i + 1] = StatusFrame("thinking")
    /\ EndsWith(out[c], <<ErrorFrame("Agent cycle exceeded 120s timeout", ErrorCode.TIMEOUT),
                          StatusFrame("idle")>>)

\* C6: a cycle whose handler timed out has written error TIMEOUT "Agent cycle
\* exceeded Ns timeout" (N the configured timeout), one whose handler raised
\* OpenClawError has written OPENCLAW_ERROR "Agent communication error", one
\* whose handler failed otherwise OPENCLAW_ERROR "Response processing failed",
\* each followed by status=idle; in the three cases the session has closed the
\* handler and the agent client holds no socket; after a cycle whose handler
\* returned, the handler was not closed and the agent client is still connected.
C6_FailureTaxonomy ==
  \A c \in Conns :
    LET wrote(detail, code) ==
          (pc[c] = "read" /\ cliOpen[c])
            => EndsWith(out[c], <<ErrorFrame(detail, code), StatusFrame("idle")>>)
        closed ==
          /\ hclosed[c] /\ client_ws = NoWs /\ ~connected
          /\ \A s \in Socks : ~sockOpen[s]
    IN /\ hres[c] = "timeout" =>
            /\ wrote("Agent cycle exceeded " \o ToString(cfg.timeout) \o "s timeout",
                     ErrorCode.TIMEOUT)
            /\ closed
       /\ hres[c] \in {"openclaw", "openclaw_kept"} =>
            wrote("Agent communication error", ErrorCode.OPENCLAW_ERROR) /\ closed
       /\ hres[c] = "other" =>
            wrote("Response processing failed", ErrorCode.OPENCLAW_ERROR) /\ closed
       /\ hres[c] = "ok" =>
            /\ ~hclosed[c]
            /\ cfg.handler = "openclaw" =>
                 connected /\ client_ws # NoWs /\ sockOpen[client_ws]

\* the agent handler was cut off by the timeout while it streamed, on a
\* connected agent socket, and the socket has been closed
C6_Witness ==
  \E c \in Conns :
    /\ pc[c] = "read" /\ cliOpen[c] /\ hres[c] = "timeout" /\ cfg.handler = "openclaw"
    /\ nsock > 0 /\ client_ws = NoWs
    /\ \E i \in 1..Len(out[c]) : out[c][i] = StatusFrame("streaming")
    /\ EndsWith(out[c], <<ErrorFrame("Agent cycle exceeded 120s timeout", ErrorCode.TIMEOUT),
                          StatusFrame("idle")>>)

\* the tasks that have an agent request or a delta iterator in flight on socket s
InFlight(s) ==
  {c \in Conns : pc[c] \in {"sm_send", "sm_recv", "st_recv"} /\ rsock[c] = s}

\* C7 as stated: on every agent socket at most one agent request or delta
\* iterator is in flight at any time, however the sessions interleave.
C7_OneInFlight == \A s \in Socks : Cardinality(InFlight(s)) <= 1

\* the position of an accepted connection in the order of acceptance
AcceptPos(c) == CHOOSE i \in 1..Len(acceptSeq) : acceptSeq[i] = c

\* C8 as stated: an agent socket is sent on and closed only by the session
\* that opened it or by a session accepted after that one; a session accepted
\* before the one that opened the socket (a replaced session) never touches it.
C8_OwnerOnly ==
  \A s \in Socks : \A c \in touched[s] : AcceptPos(c) >= AcceptPos(creator[s])

\* C9: the step that accepts a connection sets the slot to it, whoever held the
\* slot; when the accepting task comes to close the socket of the session it
\* took the slot from, a socket that is still open is closed with code 1000
\* (one the client has closed meanwhile stays as it is), and from then on that
\* socket is closed; every accepted connection but the latest was either taken
\* the slot from by the next one, or had ended before the next one was accepted.
C9_Replaced ==
  /\ current_session # NoSession => current_session = Last(acceptSeq)
  /\ \A i \in 1..Len(acceptSeq) :
       LET c == acceptSeq[i]
           old == old_session[c]
       IN /\ (old # NoSession /\ pc[c] # "repl_closeWs")
               => /\ ~cliOpen[old]
                  /\ srvClose[old] = 1000 \/ (srvClose[old] = 0 /\ pc[old] = "done")
          /\ i > 1 => \/ old = acceptSeq[i - 1]
                      \/ old = NoSession /\ pc[acceptSeq[i - 1]] = "done"

SlotHolder ==
  IF acceptSeq = <<>> \/ pc[Last(acceptSeq)] = "done" THEN NoSession ELSE Last(acceptSeq)

\* C10: the end of a session clears the slot only when the slot refers to that
\* session: a task that ends while the slot refers to another session leaves
\* the slot as it is, and the slot always refers to the latest accepted
\* connection until that connection's own task ends.
C10_SlotCleared ==
  [][/\ current_session' = SlotHolder'
     /\ \A c \in Conns :
          (pc[c] # "done" /\ pc'[c] = "done")
            => current_session' = IF current_session = c THEN NoSession
                                  ELSE current_session]_vars

\* three connections were accepted before the first had finished closing; the
\* first, replaced, has ended, the second is still being replaced, and the slot
\* refers to the third
C10_Witness ==
  /\ Len(acceptSeq) = 3
  /\ pc[acceptSeq[1]] = "done" /\ srvClose[acceptSeq[1]] = 1000
  /\ old_session[acceptSeq[3]] = acceptSeq[2] /\ pc[acceptSeq[2]] # "done"
  /\ current_session = acceptSeq[3]

\* the first inbound frame is a text frame {type:auth, token:T}, T the configured token
IsAuthFrame(ev) ==
  /\ ev.k = "text"
  /\ ev.raw = Raw([type |-> S("auth"), token |-> S(GatewayToken)])

\* C11 as stated: on a gateway with a token, the handshake of an open
\* connection whose first inbound frame is not {type:auth, token:T} (wrong
\* token, missing token, malformed JSON, binary frame, no frame in time) closes
\* the socket with code 4001; the connection is not accepted, nothing is written
\* to it, and the slot and every other connection are left as they were.
C11_AuthGate ==
  [][\A c \in Conns : \A ev \in AuthEvents :
       (AuthRecvEv(c, ev) /\ cliOpen[c] /\ ~IsAuthFrame(ev))
         => /\ ~cliOpen'[c] /\ srvClose'[c] = 4001
            /\ pc'[c] = "done" /\ out'[c] = <<>>
            /\ UNCHANGED <<vSlot, vSess, vClient, vSock>>
            /\ \A d \in Conns \ {c} :
                 /\ pc'[d] = pc[d] /\ out'[d] = out[d]
                 /\ cliOpen'[d] = cliOpen[d] /\ srvClose'[d] = srvClose[d]]_vars

\* C12 as stated: a text frame the client sent while the state tag was
\* transcribing, thinking or streaming is answered, when the session reads it,
\* with one error frame with code INVALID_STATE and starts no cycle.
C12_BusyTextRejected ==
  [][\A c \in Conns :
       (/\ ReadText(c)
        /\ recv_queue[c] # <<>>
        /\ Head(recv_queue[c]).sentIn \in {"transcribing", "thinking", "streaming"})
         => Rejection(c, "Cannot process text while session is busy")]_vars

\* the format a start_audio frame may declare
ValidFormat(rate, ch, width) ==
  width = 2 /\ 8000 <= rate /\ rate <= 48000 /\ ch \in {1, 2}

\* C13: a start_audio frame dispatched in idle whose sampleWidth is not 2, or
\* whose sampleRate is outside 8000..48000, or whose channels is neither 1 nor
\* 2, writes exactly one error frame with code INVALID_FRAME and leaves the
\* state idle and the buffer and the recording start as they were; any other
\* start_audio frame dispatched in idle installs an empty buffer of the
\* declared format, records the time, sets the state to recording and writes
\* status=recording.
C13_StartAudioValidated ==
  [][\A c \in Conns : \A raw \in cfg.raws :
       (HandleStartAudio(c, raw) /\ state[c] = "idle")
         => LET rate == raw.data.sampleRate.i
                ch == raw.data.channels.i
                width == raw.data.sampleWidth.i
            IN IF ValidFormat(rate, ch, width)
                 THEN /\ audio_buffer'[c].present
                      /\ audio_buffer'[c].sample_rate = rate
                      /\ audio_buffer'[c].channels = ch
                      /\ audio_buffer'[c].sample_width = width
                      /\ audio_buffer'[c].max_bytes = MAX_DURATION_SECONDS * rate * ch * width
                      /\ audio_buffer'[c].chunks = <<>>
                      /\ audio_buffer'[c].total_bytes = 0
                      /\ recording_start'[c] = now
                      /\ state'[c] = "recording"
                      /\ out'[c] = Append(out[c], StatusFrame("recording"))
                 ELSE /\ Len(out'[c]) = Len(out[c]) + 1
                      /\ SubSeq(out'[c], 1, Len(out[c])) = out[c]
                      /\ IsError(Last(out'[c]))
                      /\ Last(out'[c])[2] = ErrorCode.INVALID_FRAME
                      /\ state'[c] = "idle"
                      /\ audio_buffer'[c] = audio_buffer[c]
                      /\ recording_start'[c] = recording_start[c]]_vars

\* a start_audio frame with three channels was refused, and the next one, two
\* channels at 48 kHz, started a recording into an empty stereo buffer
C13_Witness ==
  \E c \in Conns :
    /\ state[c] = "recording" /\ pc[c] = "read"
    /\ audio_buffer[c].present /\ audio_buffer[c].byte_rate = 192000
    /\ recording_start[c] = now
    /\ EndsWith(out[c], <<ErrorFrame("Invalid channels: 3 (must be 1 or 2)",
                                     ErrorCode.INVALID_FRAME),
                          StatusFrame("recording")>>)

\* the frames a step has written to connection c
NewFrames(c) == SubSeq(out'[c], Len(out[c]) + 1, Len(out'[c]))

\* C14: a stop_audio frame dispatched in recording clears the recording start,
\* detaches the buffer and writes status=transcribing first; with an empty
\* buffer, transcriber or not, it then writes error TRANSCRIPTION_FAILED "No
\* audio data received" and status=idle; with audio and no transcriber it writes
\* error TRANSCRIPTION_FAILED "Transcriber not configured" and status=idle; in
\* both cases the state is idle, the task is back in the read loop, the
\* response handler was not invoked and no status=thinking was written; with
\* audio and a transcriber the state is transcribing and the task waits for
\* the transcriber.
C14_StopAudio ==
  [][\A c \in Conns :
       (ReadStopAudio(c) /\ state[c] = "recording" /\ audio_buffer[c].present)
         => /\ recording_start'[c] = NoTime
            /\ audio_buffer'[c] = NoBuf
            /\ hmsg'[c] = hmsg[c] /\ hres'[c] = "none"
            /\ IF audio_buffer[c].total_bytes = 0
                 THEN /\ NewFrames(c) =
                           <<StatusFrame("transcribing"),
                             ErrorFrame("No audio data received", ErrorCode.TRANSCRIPTION_FAILED),
                             StatusFrame("idle")>>
                      /\ state'[c] = "idle" /\ pc'[c] = "read"
               ELSE IF ~cfg.transcriber
                 THEN /\ NewFrames(c) =
                           <<StatusFrame("transcribing"),
                             ErrorFrame("Transcriber not configured",
                                        ErrorCode.TRANSCRIPTION_FAILED),
                             StatusFrame("idle")>>
                      /\ state'[c] = "idle" /\ pc'[c] = "read"
               ELSE /\ NewFrames(c) = <<StatusFrame("transcribing")>>
                    /\ state'[c] = "transcribing" /\ pc'[c] = "transcribing"]_vars

\* a gateway with a transcriber has refused an empty recording
C14_Witness ==
  \E c \in Conns :
    /\ cfg.transcriber /\ pc[c] = "read" /\ state[c] = "idle"
    /\ audio_buffer[c] = NoBuf /\ recording_start[c] = NoTime
    /\ EndsWith(out[c], <<StatusFrame("recording"), StatusFrame("transcribing"),
                          ErrorFrame("No audio data received", ErrorCode.TRANSCRIPTION_FAILED),
                          StatusFrame("idle")>>)

\* C15: when the transcriber fails while the client socket is open, the session
\* writes exactly one error frame and then status=idle, and nothing else: error
\* TRANSCRIPTION_FAILED "Transcription failed" for a TranscriptionError, error
\* TIMEOUT "Transcription timed out" for a timeout, error INTERNAL_ERROR
\* "Internal transcription error" for any other exception; the state is idle,
\* the task is back in the read loop and the response handler was not invoked.
C15_TranscriptionFailures ==
  [][\A c \in Conns : \A r \in TranscribeOutcomes :
       (TranscribeEv(c, r) /\ cliOpen[c] /\ r.k # "ok")
         => /\ NewFrames(c) =
                 << CASE r.k = "failed" ->
                           ErrorFrame("Transcription failed", ErrorCode.TRANSCRIPTION_FAILED)
                      [] r.k = "timeout" ->
                           ErrorFrame("Transcription timed out", ErrorCode.TIMEOUT)
                      [] r.k = "other" ->
                           ErrorFrame("Internal transcription error", ErrorCode.INTERNAL_ERROR),
                    StatusFrame("idle") >>
            /\ state'[c] = "idle" /\ pc'[c] = "read"
            /\ hmsg'[c] = hmsg[c] /\ hres'[c] = "none"
            /\ UNCHANGED <<vClient, vSock>>]_vars

\* the transcription of a recording has timed out
C15_Witness ==
  \E c \in Conns :
    /\ pc[c] = "read" /\ state[c] = "idle" /\ hmsg[c] = ""
    /\ EndsWith(out[c], <<StatusFrame("transcribing"),
                          ErrorFrame("Transcription timed out", ErrorCode.TIMEOUT),
                          StatusFrame("idle")>>)

\* the positions after i of the status=idle frames of o
IdleAfter(o, i) == {j \in (i + 1)..Len(o) : o[j] = StatusFrame("idle")}

\* the frames of o after position i and before the next status=idle frame
UntilIdle(o, i) ==
  LET js == IdleAfter(o, i)
      e == IF js = {} THEN Len(o) ELSE (CHOOSE j \in js : \A k \in js : j <= k) - 1
  IN SubSeq(o, i + 1, e)

\* C16: when the transcriber returns the text T while the client socket is
\* open, the session, in state transcribing, writes transcription{text:T},
\* then status=thinking, and invokes the response handler with the message T;
\* between a transcription frame and the next status=idle there is exactly one
\* status=thinking, the one that follows the transcription frame at once, and
\* while the handler runs no status=idle has followed it.
C16_TranscriptionThenText ==
  [][/\ \A c \in Conns : \A r \in TranscribeOutcomes :
          (TranscribeEv(c, r) /\ cliOpen[c] /\ r.k = "ok")
            => /\ state[c] = "transcribing"
               /\ NewFrames(c) = <<TranscriptionFrame(r.text), StatusFrame("thinking")>>
               /\ hmsg'[c] = r.text
               /\ state'[c] = "thinking"
               /\ pc'[c] \in HandlerPcs
     /\ \A c \in Conns : \A i \in 1..Len(out'[c]) :
          out'[c][i][1] = "transcription"
            => /\ hmsg'[c] = out'[c][i][2] \/ IdleAfter(out'[c], i) # {}
               /\ LET cyc == UntilIdle(out'[c], i)
                  IN /\ Len(cyc) > 0 => cyc[1] = StatusFrame("thinking")
                     /\ \A k \in 2..Len(cyc) : cyc[k] # StatusFrame("thinking")
               /\ (IdleAfter(out'[c], i) = {} /\ cliOpen'[c])
                    => pc'[c] \in HandlerPcs \cup {"err_close"}]_vars

\* the response handler is running on the transcribed text of a recording
C16_Witness ==
  \E c \in Conns :
    /\ pc[c] = "mock_sleep" /\ state[c] = "thinking" /\ hmsg[c] = "hello world"
    /\ EndsWith(out[c], <<StatusFrame("transcribing"), TranscriptionFrame("hello world"),
                          StatusFrame("thinking")>>)

\* connection c is recording into its buffer and the wall-clock limit has not passed
RecordingInTime(c) ==
  /\ state[c] = "recording" /\ audio_buffer[c].present
  /\ recording_start[c] = NoTime \/ now - recording_start[c] <= 90

\* the step has emptied the buffer of c, left its format alone, set the state
\* to idle and written the error frame and status=idle
AudioAborted(c, detail, code) ==
  /\ audio_buffer'[c] = [audio_buffer[c] EXCEPT !.chunks = <<>>, !.total_bytes = 0]
  /\ state'[c] = "idle" /\ pc'[c] = "read"
  /\ NewFrames(c) = <<ErrorFrame(detail, code), StatusFrame("idle")>>

\* the step has written nothing to c and left its session as it was
Ignored(c) ==
  /\ NewFrames(c) = <<>> /\ Len(out'[c]) = Len(out[c])
  /\ state'[c] = state[c] /\ audio_buffer'[c] = audio_buffer[c]
  /\ recording_start'[c] = recording_start[c]
  /\ pc'[c] = "read" /\ cliOpen'[c]

\* C17: during a recording within the time limit, a well-aligned binary frame
\* that would bring the byte count of the buffer above 60 seconds of audio in
\* the declared format empties the buffer, sets the state to idle and writes
\* error BUFFER_OVERFLOW "Audio buffer overflow" and status=idle; one that does
\* not is appended and nothing is written; a binary frame read after the
\* overflow, the session still idle, is ignored.
C17_BufferOverflow ==
  [][\A c \in Conns : \A n \in cfg.lens :
       /\ (/\ HandleBinary(c, n) /\ RecordingInTime(c)
           /\ n % audio_buffer[c].sample_width = 0)
            => IF audio_buffer[c].total_bytes + n
                    > MAX_DURATION_SECONDS * audio_buffer[c].sample_rate
                        * audio_buffer[c].channels * audio_buffer[c].sample_width
                 THEN AudioAborted(c, "Audio buffer overflow", ErrorCode.BUFFER_OVERFLOW)
                 ELSE /\ audio_buffer'[c].total_bytes = audio_buffer[c].total_bytes + n
                      /\ NewFrames(c) = <<>> /\ state'[c] = "recording"
       /\ (/\ HandleBinary(c, n) /\ state[c] = "idle"
           /\ EndsWith(out[c], <<ErrorFrame("Audio buffer overflow",
                                             ErrorCode.BUFFER_OVERFLOW),
                                  StatusFrame("idle")>>))
            => Ignored(c)]_vars

\* the session has read three frames, a recording of 16 kHz mono audio has
\* overflowed on one of them and nothing else was written
C17_Witness ==
  \E c \in Conns :
    /\ state[c] = "idle" /\ pc[c] = "read" /\ budget[c] = 0 /\ now = 0
    /\ audio_buffer[c].present /\ audio_buffer[c].total_bytes = 0
    /\ audio_buffer[c].byte_rate = 32000
    /\ out[c] = <<ConnectedFrame, StatusFrame("idle"), StatusFrame("recording"),
                  ErrorFrame("Audio buffer overflow", ErrorCode.BUFFER_OVERFLOW),
                  StatusFrame("idle")>>

C19_RecordingCap ==
  [][\A c \in Conns : \A n \in cfg.lens :
       (HandleBinary(c, n) /\ state[c] = "recording" /\ audio_buffer[c].present)
         => IF recording_start[c] # NoTime /\ now - recording_start[c] > 90
              THEN /\ AudioAborted(c, "Recording exceeded 90s limit",
                                   ErrorCode.BUFFER_OVERFLOW)
                   /\ recording_start'[c] = NoTime
              ELSE \A i \in 1..Len(NewFrames(c)) :
                     NewFrames(c)[i] # ErrorFrame("Recording exceeded 90s limit",
                                                  ErrorCode.BUFFER_OVERFLOW)]_vars

\* a recording was ended by the binary frame that arrived 135 seconds after
\* its start, the third frame of the session
C19_Witness ==
  \E c \in Conns :
    /\ state[c] = "idle" /\ pc[c] = "read" /\ now = 135 /\ budget[c] = 0
    /\ recording_start[c] = NoTime
    /\ audio_buffer[c].present /\ audio_buffer[c].total_bytes = 0
    /\ out[c] = <<ConnectedFrame, StatusFrame("idle"), StatusFrame("recording"),
                  ErrorFrame("Recording exceeded 90s limit", ErrorCode.BUFFER_OVERFLOW),
                  StatusFrame("idle")>>

\* C20: a binary frame read while the state is not recording writes nothing
\* and leaves the state tag, the buffer and the recording start as they were;
\* the task stays in its read loop on an open socket.
C20_BinaryIgnored ==
  [][\A c \in Conns : \A n \in cfg.lens :
       (HandleBinary(c, n) /\ state[c] # "recording") => Ignored(c)]_vars

\* a client that sends only well-formed text, start_audio and stop_audio frames
\* and two-byte chunks has had one frame ignored and then a text cycle served
C20_Witness ==
  \E c \in Conns :
    /\ cfg.raws = PlainRaws /\ cfg.handler = "mock"
    /\ budget[c] = MaxFrames - 2
    /\ pc[c] = "read" /\ state[c] = "idle" /\ hres[c] = "ok"
    /\ out[c] = <<ConnectedFrame, StatusFrame("idle"), StatusFrame("thinking"),
                  StatusFrame("streaming")>>
                 \o [k \in 1..Len(MOCK_DELTAS) |-> AssistantFrame(MOCK_DELTAS[k])]
                 \o <<EndFrame, StatusFrame("idle")>>

CyclePcs == HandlerPcs \cup {"err_close"}

\* the kinds of failure of a handler call
ErrorKinds == {"timeout", "openclaw", "openclaw_kept", "other"}

\* C22: when a text cycle ends while the client socket is closed, so that the
\* error frame and the final status=idle cannot be written, the write failures
\* are swallowed: nothing is written, the session state is idle, the handler
\* was closed and the agent client holds no socket and is not connected, and
\* the task is back in its read loop (no exception left the cycle).
C22_WriteFailureTolerated ==
  [][\A c \in Conns :
       (pc[c] \in CyclePcs /\ pc'[c] \notin CyclePcs /\ ~cliOpen[c])
         => /\ pc'[c] = "read"
            /\ state'[c] = "idle"
            /\ hres'[c] \in ErrorKinds
            /\ out'[c] = out[c]
            /\ hclosed'[c] /\ client_ws' = NoWs /\ ~connected'
            /\ \A s \in Socks : ~sockOpen'[s]]_vars

\* the client went away while the agent streamed; the cycle timed out, the
\* agent socket was closed, and neither the error frame nor status=idle was
\* written
C22_Witness ==
  \E c \in Conns :
    /\ pc[c] = "read" /\ ~cliOpen[c] /\ state[c] = "idle" /\ hres[c] = "timeout"
    /\ cfg.handler = "openclaw" /\ nsock > 0 /\ client_ws = NoWs
    /\ Len(out[c]) > 0 /\ out[c][Len(out[c])] = StatusFrame("streaming")

\* C23 as stated: a fresh connect (websockets.connect has returned) takes id 1
\* for the auth request and leaves the counter at 2, and the agent request
\* that follows the handshake takes id 2; an agent request on a client that is
\* already connected opens no socket, keeps the client's socket, and takes the
\* counter's value, which it increments; and as long as the client keeps the
\* same socket the counter never decreases, so that the ids taken on one
\* connection are strictly increasing.
C23_RequestIds ==
  [][/\ \A c \in Conns :
          /\ (pc[c] = "ec_connect" /\ pc'[c] = "ec_authSend")
                => /\ nsock' = nsock + 1 /\ client_ws' = nsock'
                   /\ req_id'[c] = 1 /\ next_id' = 2
          /\ (pc[c] = "ec_authRecv" /\ pc'[c] = "sm_send")
                => req_id'[c] = 2 /\ next_id' = 3 /\ rsock'[c] = client_ws'
          /\ (pc[c] \in {"read", "transcribing"} /\ pc'[c] = "sm_send")
                => /\ nsock' = nsock /\ client_ws' = client_ws
                   /\ rsock'[c] = client_ws
                   /\ req_id'[c] = next_id /\ next_id' = next_id + 1
     /\ (client_ws # NoWs /\ client_ws' = client_ws) => next_id' >= next_id]_vars

\* C24 as stated: whenever the auth handshake of ensure_connected fails (the
\* send of the auth request fails, or the wait for the response ends with
\* anything but a response of type res with the auth id and ok=true), the
\* client closes its socket and the call fails with OpenClawError, after which
\* the client holds no socket and is not connected.
C24_AuthFailure ==
  [][\A c \in Conns :
       LET failed == \/ pc'[c] = "ec_failClose"
                     \/ /\ hres'[c] = "openclaw" /\ pc'[c] = "read"
                        /\ client_ws' = NoWs /\ ~connected'
       IN /\ (EcAuthSend(c) /\ pc'[c] # "ec_authRecv") => failed
          /\ \A r \in ResOutcomes \ {"ok"} : EcAuthRecvEv(c, r) => failed
          /\ EcFailClose(c) => /\ hres'[c] = "openclaw" /\ pc'[c] = "read"
                               /\ client_ws' = NoWs /\ ~connected']_vars

\* C25 as stated: whenever send_message fails after the connection is
\* established (the send of the agent request fails, or the wait for the
\* response ends with anything but a response of type res with the request id
\* and ok=true), it leaves with an OpenClawError raised after the client has
\* cleared _connected (the failure kind "openclaw").
C25_SendFailure ==
  [][\A c \in Conns :
       LET kind == IF pc'[c] = "err_close" THEN errKind'[c] ELSE hres'[c]
       IN /\ (SmSend(c) /\ pc'[c] # "sm_recv") => kind = "openclaw"
          /\ \A r \in ResOutcomes \ {"ok"} : SmRecvEv(c, r) => kind = "openclaw"]_vars

\* C26: while the client socket and the agent socket are open, the iterator
\* and the relay loop of the handler turn each upstream message into exactly
\* this: an assistant event with a non-empty delta appends one assistant frame
\* with that delta to what the session has written and goes on; an assistant
\* event with an empty delta, a tool event, a message that is no agent event
\* and a text that is no JSON write nothing and go on; the first lifecycle end
\* appends end and status=idle, ends the cycle with the handler's return, and
\* leaves the client connected on its open socket.
C26_DeltaRelay ==
  [][\A c \in Conns : \A e \in StreamEvents :
       (StRecvEv(c, e) /\ cliOpen[c] /\ sockOpen[rsock[c]])
         => /\ (e.k = "delta" /\ e.d # "")
                 => /\ out'[c] = out[c] \o <<AssistantFrame(e.d)>>
                    /\ pc'[c] = "st_recv" /\ connected' = connected
                    /\ client_ws' = client_ws
            /\ (e.k \in {"tool", "nonagent", "badjson"} \/ (e.k = "delta" /\ e.d = ""))
                 => /\ out'[c] = out[c]
                    /\ pc'[c] = "st_recv" /\ connected' = connected
                    /\ client_ws' = client_ws
            /\ e.k = "end"
                 => /\ out'[c] = out[c] \o <<EndFrame, StatusFrame("idle")>>
                    /\ pc'[c] = "read" /\ hres'[c] = "ok" /\ state'[c] = "idle"
                    /\ connected' /\ client_ws' = client_ws /\ client_ws # NoWs
                    /\ sockOpen'[client_ws]]_vars

\* the agent sent the deltas b and a, in this order, and a lifecycle end: the
\* session wrote them in this order between status=streaming and end, and the
\* client is still connected
C26_Witness ==
  \E c \in Conns :
    /\ pc[c] = "read" /\ cliOpen[c] /\ hres[c] = "ok"
    /\ connected /\ client_ws # NoWs /\ sockOpen[client_ws]
    /\ EndsWith(out[c], <<StatusFrame("streaming"), AssistantFrame("b"),
                          AssistantFrame("a"), EndFrame, StatusFrame("idle")>>)

\* C27: a cycle leaves the delta iterator with the handler's normal return
\* only at a lifecycle end event; a lifecycle error event makes it fail with
\* OpenClawError; the close of the agent connection before lifecycle end makes
\* it fail with OpenClawError after the client has cleared _connected; and in
\* both failures every frame written before, the assistant frames of the
\* deltas among them, stays written.
C27_NoCleanEndWithoutEnd ==
  [][\A c \in Conns :
       LET kind == IF pc'[c] = "err_close" THEN errKind'[c] ELSE hres'[c]
           kept == /\ Len(out'[c]) >= Len(out[c])
                   /\ SubSeq(out'[c], 1, Len(out[c])) = out[c]
       IN /\ (pc[c] = "st_recv" /\ pc'[c] = "read" /\ hres'[c] = "ok")
               => StRecvEv(c, [k |-> "end", d |-> ""])
          /\ (StRecvEv(c, [k |-> "error", d |-> ""]) /\ sockOpen[rsock[c]])
               => kind \in {"openclaw", "openclaw_kept"} /\ kept /\ pc'[c] # "st_recv"
          /\ (StRecvEv(c, [k |-> "closed", d |-> ""]) \/ (StRecv(c) /\ ~sockOpen[rsock[c]]))
               => kind = "openclaw" /\ kept /\ pc'[c] # "st_recv" /\ ~connected']_vars

\* the agent sent the delta a and then the connection closed: the session had
\* written the assistant frame, and the cycle ended with the agent error frame
\* and status=idle, the client disconnected
C27_Witness ==
  \E c \in Conns :
    /\ pc[c] = "read" /\ cliOpen[c] /\ hres[c] = "openclaw"
    /\ ~connected /\ client_ws = NoWs
    /\ EndsWith(out[c], <<StatusFrame("streaming"), AssistantFrame("a"),
                          ErrorFrame("Agent communication error", ErrorCode.OPENCLAW_ERROR),
                          StatusFrame("idle")>>)

\* the failures of a cycle that the session reports as timeout or agent error
UpstreamKinds == {"timeout", "openclaw", "openclaw_kept"}

\* the session's current cycle, which has written nothing but status=thinking
\* yet, follows a cycle that ended with the timeout or the agent error frame
AfterFailedCycle(c) ==
  \E kind \in UpstreamKinds :
    EndsWith(out[c], <<HandlerErrorFrame(kind), StatusFrame("idle"), StatusFrame("thinking")>>)

\* C28 as stated: when a cycle ends with the timeout or the agent error frame,
\* the session is idle and the agent client holds no socket and is not
\* connected; a text message that the session reads next starts, with the
\* agent handler, a fresh connect with the counter at 1 (after the close of a
\* socket the client holds without being connected); the connect of that cycle
\* opens a new socket and takes id 1 for the auth request, and the agent
\* request that follows the handshake takes id 2.
C28_Recovery ==
  [][\A c \in Conns :
       /\ (pc[c] \in CyclePcs /\ pc'[c] = "read" /\ hres'[c] \in UpstreamKinds)
            => state'[c] = "idle" /\ client_ws' = NoWs /\ ~connected'
       /\ (pc[c] = "read" /\ hres[c] \in UpstreamKinds /\ state'[c] = "thinking"
             /\ cfg.handler = "openclaw")
            => \/ pc'[c] = "ec_connect" /\ next_id' = 1
               \/ pc'[c] = "ec_closeStale"
       /\ (AfterFailedCycle(c) /\ EcCloseStale(c)) => next_id' = 1
       /\ (AfterFailedCycle(c) /\ pc[c] = "ec_connect" /\ pc'[c] = "ec_authSend")
            => client_ws' = nsock + 1 /\ sockOpen'[client_ws'] /\ req_id'[c] = 1
       /\ (AfterFailedCycle(c) /\ pc[c] = "ec_authRecv" /\ pc'[c] = "sm_send")
            => req_id'[c] = 2 /\ rsock'[c] = client_ws']_vars

\* C29 as stated: the step by which a session ends because its client has
\* gone (the read loop ends and handler() runs its finally clause) leaves the
\* agent client without socket and not connected, and every agent socket
\* closed.
C29_DisconnectReleases ==
  [][\A c \in Conns :
       SessionEnd(c) => /\ client_ws' = NoWs /\ ~connected'
                        /\ \A s \in Socks : ~sockOpen'[s]]_vars

\* the sum of the lengths of a sequence of chunks
RECURSIVE SumSeq(_)
SumSeq(q) == IF q = <<>> THEN 0 ELSE q[1] + SumSeq(Tail(q))

\* C30: after any sequence of append and reset calls on an AudioBuffer, its
\* byte total is the sum of the lengths of the chunks it holds, which are the
\* chunks accepted since the last reset, and is at most MAX_DURATION_SECONDS
\* times its byte rate; an append of an aligned chunk that would exceed that
\* cap has left with BufferOverflow and the buffer as it was; one within the cap, the one
\* that reaches it exactly included, has left without exception, with the chunk
\* added at the end and counted; a reset has left the buffer empty.
C30_BufferCap ==
  \A c \in Conns :
    LET b == audio_buffer[c]
        p == last_call.before
        n == last_call.n
    IN (b.present /\ c = 1) =>
         /\ b.total_bytes = SumSeq(b.chunks)
         /\ b.total_bytes <= MAX_DURATION_SECONDS * (b.sample_rate * b.channels * b.sample_width)
         /\ last_call.op = "init" => b.chunks = <<>> /\ b.total_bytes = 0
         /\ last_call.op = "reset" => b.chunks = <<>> /\ b.total_bytes = 0
         /\ (last_call.op = "append" /\ n % p.sample_width = 0
               /\ p.total_bytes + n > MAX_DURATION_SECONDS * p.byte_rate)
              => last_call.exc = "BufferOverflow" /\ b = p
         /\ (last_call.op = "append" /\ n % p.sample_width = 0
               /\ p.total_bytes + n <= MAX_DURATION_SECONDS * p.byte_rate)
              => /\ last_call.exc = "none"
                 /\ b.total_bytes = p.total_bytes + n
                 /\ b.chunks = IF n = 0 THEN p.chunks ELSE Append(p.chunks, n)

\* a buffer that two chunks have filled to the cap exactly has refused a
\* further chunk of two bytes and is as it was
C30_Witness ==
  /\ audio_buffer[1].present
  /\ Len(audio_buffer[1].chunks) = 2
  /\ audio_buffer[1].total_bytes = MAX_DURATION_SECONDS * audio_buffer[1].byte_rate
  /\ last_call.op = "append" /\ last_call.n = 2 /\ last_call.exc = "BufferOverflow"
  /\ last_call.before = audio_buffer[1]

FailureDetails(code) ==
  CASE code = ErrorCode.TRANSCRIPTION_FAILED ->
         {"No audio data received", "Transcriber not configured", "Transcription failed"}
    [] code = ErrorCode.TIMEOUT ->
         {"Transcription timed out",
          "Agent cycle exceeded " \o ToString(cfg.timeout) \o "s timeout"}
    [] code = ErrorCode.INTERNAL_ERROR -> {"Internal transcription error"}
    [] code = ErrorCode.OPENCLAW_ERROR ->
         {"Agent communication error", "Response processing failed"}
    [] code = ErrorCode.BUFFER_OVERFLOW ->
         {"Audio buffer overflow",
          "Recording exceeded " \o ToString(MAX_RECORDING_SECONDS) \o "s limit"}
    [] OTHER -> {"Invalid audio data format"}

FailureCodes ==
  {ErrorCode.TRANSCRIPTION_FAILED, ErrorCode.TIMEOUT, ErrorCode.INTERNAL_ERROR,
   ErrorCode.OPENCLAW_ERROR, ErrorCode.BUFFER_OVERFLOW}

\* C32: in runs that differ only in the text the internal exceptions carry,
\* every error frame written for a transcriber failure, a response-handler
\* failure or an audio-append failure has a detail that is a fixed string for
\* its error code and never the text of the exception: a step that ends the
\* transcription, a step of the response handler and a step that handles a
\* binary frame write only error frames whose detail is in the fixed table.
C32_NoExceptionText ==
  [][\A c \in Conns :
       LET new == NewFrames(c)
           errs == {i \in 1..Len(new) : IsError(new[i])}
       IN /\ \A i \in errs :
               /\ new[i][3] \notin ExcTexts
               /\ new[i][2] \in FailureCodes => new[i][3] \in FailureDetails(new[i][2])
          /\ \A i \in errs :
               (pc[c] \in CyclePcs \cup {"transcribing"} \/ \E n \in cfg.lens : HandleBinary(c, n))
                 => /\ new[i][3] \in FailureDetails(new[i][2])
                    /\ new[i][2] \in FailureCodes \cup {ErrorCode.INVALID_FRAME}]_vars

\* the response handler has failed in a run whose exceptions carry the second
\* text, and the client has the error frame of the except clause
C32_Witness ==
  /\ exc_text = "no route to 10.0.0.7"
  /\ hres[1] \in {"openclaw", "openclaw_kept", "other"}
  /\ \E i \in 1..Len(out[1]) :
       out[1][i] \in {ErrorFrame("Agent communication error", ErrorCode.OPENCLAW_ERROR),
                      ErrorFrame("Response processing failed", ErrorCode.OPENCLAW_ERROR)}

\* C33 as stated: parse_text_frame accepts the serialization of a frame exactly
\* when its type is one of start_audio, stop_audio, text, pong, auth and the
\* fields required for that type are present with the right type, and then
\* returns the frame; it refuses every frame of an outbound type; and
\* validate_outbound refuses every frame of an inbound type.
C33_CodecNamespaces ==
  LET Required == [start_audio |-> {"sampleRate", "channels", "sampleWidth"},
                   stop_audio |-> {}, text |-> {"message"}, pong |-> {},
                   auth |-> {"token"}]
      TypeOf == [sampleRate |-> "int", channels |-> "int", sampleWidth |-> "int",
                 message |-> "str", token |-> "str"]
      OutboundTypes == {"connected", "status", "transcription", "assistant", "end",
                        "error", "ping"}
      d == last_call.frame
      Typed == "type" \in DOMAIN d /\ d.type.t = "str"
      Valid == /\ Typed
               /\ d.type.s \in DOMAIN Required
               /\ \A k \in Required[d.type.s] : k \in DOMAIN d /\ d[k].t = TypeOf[k]
  IN /\ last_call.op = "parse" =>
          /\ last_call.res.ok <=> Valid
          /\ last_call.res.ok => last_call.res.frame = d
          /\ (Typed /\ d.type.s \in OutboundTypes) => ~last_call.res.ok
     /\ last_call.op = "validate" =>
          ((Typed /\ d.type.s \in DOMAIN Required) => ~last_call.res.ok)

\* C34: every step that changes the state tag of a session takes one of the
\* transitions idle->recording, idle->thinking, recording->transcribing,
\* recording->idle, transcribing->thinking, transcribing->idle,
\* thinking->streaming, thinking->idle, streaming->idle; a step that writes
\* status=thinking (the start of a cycle) is taken by a session that is idle in
\* its read loop or transcribing, never by one whose cycle is still running.
C34_Transitions ==
  [][\A c \in Conns :
       /\ state'[c] # state[c] =>
            <<state[c], state'[c]>> \in
              { <<"idle", "recording">>, <<"idle", "thinking">>,
                <<"recording", "transcribing">>, <<"recording", "idle">>,
                <<"transcribing", "thinking">>, <<"transcribing", "idle">>,
                <<"thinking", "streaming">>, <<"thinking", "idle">>,
                <<"streaming", "idle">> }
       /\ (\E i \in 1..Len(NewFrames(c)) : NewFrames(c)[i] = StatusFrame("thinking"))
            => /\ \/ state[c] = "idle" /\ pc[c] = "read"
                  \/ state[c] = "transcribing" /\ pc[c] = "transcribing"
               /\ state'[c] = "thinking"
       /\ state'[c] = "thinking" /\ state[c] # "thinking"
            => state[c] \in {"idle", "transcribing"}]_vars

\* a second cycle is running in a session whose first cycle has ended with an
\* end frame and status=idle
C34_Witness ==
  /\ state[1] = "thinking"
  /\ \E i \in 2..Len(out[1]) :
       /\ out[1][i - 1] = EndFrame /\ out[1][i] = StatusFrame("idle")
       /\ \E j \in (i + 1)..Len(out[1]) : out[1][j] = StatusFrame("thinking")

\* C35: in every reachable state, a session whose state tag is recording holds
\* an audio buffer and has its recording start set.
C35_RecordingHoldsBuffer ==
  \A c \in Conns :
    state[c] = "recording" => audio_buffer[c].present /\ recording_start[c] # NoTime

\* a session is recording, has taken a chunk, and the clock has moved on since
\* the recording started
C35_Witness ==
  /\ state[1] = "recording"
  /\ audio_buffer[1].present /\ audio_buffer[1].total_bytes > 0
  /\ recording_start[1] # NoTime /\ now > recording_start[1]

\* C36 as stated: in every reachable state, a session whose state tag is not
\* recording holds no audio buffer.
C36_BufferOnlyWhileRecording ==
  \A c \in Conns : state[c] # "recording" => ~audio_buffer[c].present

\* C37 as stated: in every reachable state, the state tag of a session whose
\* client is connected equals the status of the last status frame written to
\* that client.
C37_StateMatchesStatus ==
  \A c \in Conns :
    LET st == {i \in 1..Len(out[c]) : IsStatus(out[c][i])}
    IN (cliOpen[c] /\ st # {}) =>
         state[c] = out[c][CHOOSE i \in st : \A j \in st : j <= i][2]

\* the frames of the cycle that starts with the status=thinking frame at index
\* i of o: those after it, up to the next status=idle
CycleEnd(o, i) ==
  LET idle == {j \in (i + 1)..Len(o) : o[j] = StatusFrame("idle")}
  IN IF idle = {} THEN Len(o) + 1 ELSE CHOOSE j \in idle : \A k \in idle : j <= k

C39_CycleTerminates ==
  \A c \in Conns :
    (state[c] \in {"transcribing", "thinking"}) ~> (state[c] = "idle" \/ pc[c] = "done")

\* C39 as stated: a session that is transcribing or thinking is eventually
\* idle again.
C39_ReturnsToIdle ==
  \A c \in Conns : (state[c] \in {"transcribing", "thinking"}) ~> (state[c] = "idle")

\* a cycle whose agent accepted the request and then stalled has been ended by
\* the timeout: the client has the delta, the timeout error and status=idle
C39_Witness ==
  /\ state[1] = "idle" /\ pc[1] = "read" /\ hres[1] = "timeout"
  /\ EndsWith(out[1], <<AssistantFrame("a"), HandlerErrorFrame("timeout"), StatusFrame("idle")>>)

\* C40 as stated: in every reachable state, an agent client that is marked
\* connected holds a socket; the flag is set only by the step that receives,
\* on the socket the client holds, the response ok to the auth request with id
\* 1; a handshake that fails leaves the client not connected and, once its
\* close has returned, without socket; and close() leaves it so as well.
C40_ConnectedMeansAuthenticated ==
  /\ [](connected => client_ws # NoWs)
  /\ [][\A c \in Conns :
          /\ (~connected /\ connected')
               => /\ \E d \in Conns : EcAuthRecvEv(d, "ok") /\ req_id[d] = 1
                                         /\ rsock[d] = client_ws'
          /\ \A r \in ResOutcomes \ {"ok"} :
               EcAuthRecvEv(c, r) => /\ ~connected'
                                     /\ pc'[c] = "ec_failClose" \/ client_ws' = NoWs
          /\ (EcAuthSend(c) /\ pc'[c] # "ec_authRecv")
               => /\ ~connected'
                  /\ pc'[c] = "ec_failClose" \/ client_ws' = NoWs
          /\ EcFailClose(c) => ~connected' /\ client_ws' = NoWs
          /\ ErrClose(c) => ~connected' /\ client_ws' = NoWs]_vars

====
